---- MODULE Spec2Model ----
(***************************************************************************)
(* httpsocket: a JSON-RPC over WebSocket (and single-shot HTTP) proxy to   *)
(* an HTTP upstream.  The model follows src/unnamed/part_003 (utils.go and *)
(* wsproxy.go), src/unnamed/part_002 (statcounter.go with throttling),     *)
(* src/src/httpsocket/jsonrpcproxy.go and src/src/httpsocket/main.go.      *)
(*                                                                         *)
(* Tasks of the program: one handler per HTTP request (ServeWebsocket or   *)
(* ServeHttp), one ping goroutine per WebSocket session, one worker        *)
(* goroutine per JSON-RPC request (HandleRpcRequest), and the ticking loop *)
(* of the global StatCounter.                                              *)
(***************************************************************************)
EXTENDS Integers, Sequences, FiniteSets, TLC

\* ------------------------------------------------------------------ bounds
\* HTTP requests (sessions) the server receives.
MaxSessions == 2
\* JSON-RPC requests read in total, over all sessions.
MaxRequests == 2
\* Seconds the wall clock advances.
MaxTime == 1

\* Goroutines that call the methods of one counter concurrently.
MaxCallers == 2
\* What a per-second counter or a gauge holds when they start.
MaxCount == 1

Sessions == 1..MaxSessions
Workers  == 1..MaxRequests
Callers  == 1..MaxCallers

\* ----------------------------------------------------------- configuration
\* --throttle-rps-per-client and --throttle-concurrent-requests-per-client
\* (main.go:18-19; the defaults are 50 and 10, any value > 0 enables the limit).
throttleRpsPerClient == 1
throttleConcurrentRequestsPerClient == 1

\* ProxyParams (jsonrpcproxy.go:50-54) as main() builds it from the flags.
\* Go strings that the code inspects are tuples of tokens: "" is <<>>.
ProxyParamsDefault ==
    [ DefaultHost              |-> <<"def">>,
      WhitelistedUpstreamHosts |-> << <<"good">> >>,
      WhitelistedOrigins       |-> << <<>>, <<".ok">> >> ]

\* Error codes (jsonrpcproxy.go:57-62).  ErrCodeBadGateway is -502.
ErrCodeInvalidMethod == -32601
ErrCodeInternalError == -32603
ErrCodeBadGateway == -502
ErrCodeGenericBadRequest == 400

\* ReadDeadline (wsproxy.go, const block), in seconds.
ReadDeadline == 60

NoTask == 0
PingTask == 0 - 1
NIL == [nil |-> TRUE]
NoParent == "nil"

VARIABLES
    now,            \* wall clock, unix seconds
    params,         \* ProxyParams
    global,         \* globalStatCounter
    ticked,         \* sum of the snapshots the ticking loop took of global
    sessPc,         \* position of each HTTP handler
    origin,         \* Origin header of each request
    statCounter,    \* client.statCounter of each session (NIL when unset)
    xRealIp,        \* client.xRealIp
    gotWriteError,  \* client.gotWriteError
    writeLock,      \* client.writeLock: the task holding it, or NoTask
    connOpen,       \* the session's socket is open
    wire,           \* what has been written to the session's sink, in order
    pingPc,         \* position of the session's ping goroutine
    calls,          \* history per session: how often OpenedConnection / ClosedConnection
                    \* were called; ipSet and ipFrom, the address and the worker of the
                    \* last httpsocket.setxrealip answered "ok"; ipLast, the worker that
                    \* assigned xRealIp last; ipChanged, xRealIp was assigned after that
                    \* answer; lastEvent, the time of the latest of the upgrade, the
                    \* requests parsed and the pongs received; timedOut, the read loop
                    \* ended on the read deadline
    wk,             \* the worker goroutines: request, position, pending response
    callers,        \* the goroutines that call the methods of a session's counter
    tally,          \* history of the session's counter: increments made, snapshots
                    \* returned by Tick, the arguments Tick was invoked with
    readDeadline    \* the read deadline of the session's socket, unix seconds

vars == << now, params, global, ticked, sessPc, origin, statCounter, xRealIp,
           gotWriteError, writeLock, connOpen, wire, pingPc, calls,
           wk, callers, tally, readDeadline >>

\* ------------------------------------------------------------- StatCounter
\* A zero StatCounter with the given parent (the struct literal of NewStatCounter).
ZeroCounter(parent) ==
    [ parentCounter              |-> parent,
      tickLoopRunning            |-> FALSE,
      unixtime                   |-> 0,
      connectionAttemptsPerSec   |-> 0,
      connectionsPerSec          |-> 0,
      throttledConnectionsPerSec |-> 0,
      activeConnections          |-> 0,
      requestsPerSec             |-> 0,
      responsesPerSec            |-> 0,
      activeRequests             |-> 0 ]

\* Tick: the counter after the swaps (per-second counters to 0, unixtime set).
Tick(sc, unixtime) ==
    [ sc EXCEPT !.unixtime = unixtime,
                !.connectionAttemptsPerSec = 0,
                !.connectionsPerSec = 0,
                !.throttledConnectionsPerSec = 0,
                !.requestsPerSec = 0,
                !.responsesPerSec = 0 ]

\* Tick: the snapshot it returns (the swapped-out counters, the loaded gauges).
TickCopy(sc) ==
    [ ZeroCounter(NoParent) EXCEPT
        !.unixtime = sc.unixtime,
        !.connectionAttemptsPerSec = sc.connectionAttemptsPerSec,
        !.connectionsPerSec = sc.connectionsPerSec,
        !.throttledConnectionsPerSec = sc.throttledConnectionsPerSec,
        !.requestsPerSec = sc.requestsPerSec,
        !.responsesPerSec = sc.responsesPerSec,
        !.activeConnections = sc.activeConnections,
        !.activeRequests = sc.activeRequests ]

NewStatCounter(parent, t) == Tick(ZeroCounter(parent), t)

\* The effect of each counter method on the counter it is called on; the call on
\* the parent is the caller's next step.
ConnectionAttempt(sc) ==
    [sc EXCEPT !.connectionAttemptsPerSec = @ + 1]

OpenedConnection(sc) ==
    [sc EXCEPT !.connectionsPerSec = @ + 1, !.activeConnections = @ + 1]

\* ClosedConnection without the decrement.
ClosedConnectionNoDecrement(sc) == sc

ClosedConnection(sc) ==
    [sc EXCEPT !.activeConnections = @ - 1]

RequestStarted(sc) ==
    [sc EXCEPT !.requestsPerSec = @ + 1, !.activeRequests = @ + 1]

RequestFinished(sc) ==
    [sc EXCEPT !.responsesPerSec = @ + 1, !.activeRequests = @ - 1]

ConnectionThrottled(sc) ==
    [sc EXCEPT !.throttledConnectionsPerSec = @ + 1]

\* ThrottleIfNeeded with limits that must be exceeded, not reached.
ThrottleIfNeededStrict(sc, rpsLimit, activeRequestsLimit) ==
    IF rpsLimit > 0 /\ rpsLimit < sc.requestsPerSec
    THEN TRUE
    ELSE activeRequestsLimit > 0 /\ activeRequestsLimit < sc.activeRequests

\* ThrottleIfNeeded: whether the caller is throttled.
ThrottleIfNeeded(sc, rpsLimit, activeRequestsLimit) ==
    IF rpsLimit > 0 /\ rpsLimit <= sc.requestsPerSec
    THEN TRUE
    ELSE activeRequestsLimit > 0 /\ activeRequestsLimit <= sc.activeRequests

\* ------------------------------------------------------------------ strings
HasPrefix(s, prefix) ==
    /\ Len(prefix) <= Len(s)
    /\ SubSeq(s, 1, Len(prefix)) = prefix

HasSuffix(s, suffix) ==
    /\ Len(suffix) <= Len(s)
    /\ SubSeq(s, Len(s) - Len(suffix) + 1, Len(s)) = suffix

\* CheckOrigin without the test h != "".
CheckOriginEmptyEntries(p, o) ==
    IF Len(p.WhitelistedOrigins) = 0
    THEN TRUE
    ELSE \E i \in 1..Len(p.WhitelistedOrigins) :
            HasSuffix(o, p.WhitelistedOrigins[i])

\* WsProxy.CheckOrigin
CheckOrigin(p, o) ==
    IF Len(p.WhitelistedOrigins) = 0
    THEN TRUE
    ELSE \E i \in 1..Len(p.WhitelistedOrigins) :
            /\ p.WhitelistedOrigins[i] # <<>>
            /\ HasSuffix(o, p.WhitelistedOrigins[i])

\* --------------------------------------------------------------- JSON values
\* JSON texts are tuples of tokens; <<>> is the empty text (an absent field, a nil
\* json.RawMessage).  A number is written as its integer digits, optionally
\* followed by "." and fraction digits.
JsonNull == <<"null">>

IsStringText(text) == Len(text) >= 2 /\ text[1] = "\"" /\ text[Len(text)] = "\""

RECURSIVE StripZeros(_)
StripZeros(ds) ==
    IF Len(ds) > 0 /\ ds[Len(ds)] = "0" THEN StripZeros(SubSeq(ds, 1, Len(ds) - 1)) ELSE ds

\* encoding/json decoding into interface{} (JsonRpcRequest.Id): null and an absent
\* field give nil, a string its characters, a number a float64.
DecodeId(text) ==
    IF text = <<>> \/ text = JsonNull THEN NIL
    ELSE IF IsStringText(text) THEN [str |-> SubSeq(text, 2, Len(text) - 1)]
    ELSE LET dot == {i \in 1..Len(text) : text[i] = "."}
             d   == IF dot = {} THEN Len(text) + 1 ELSE CHOOSE i \in dot : TRUE
         IN  [int  |-> SubSeq(text, 1, d - 1),
              frac |-> StripZeros(SubSeq(text, d + 1, Len(text)))]

\* encoding/json encoding of that interface{} value (JsonRpcResponse.Id).
EncodeId(v) ==
    IF v = NIL THEN JsonNull
    ELSE IF "str" \in DOMAIN v THEN <<"\"">> \o v.str \o <<"\"">>
    ELSE IF v.frac = <<>> THEN v.int ELSE v.int \o <<".">> \o v.frac

\* json.Unmarshal(rq.Params, &ip) with ip a string: a JSON string decodes, null
\* leaves ip "" without an error, anything else (also the empty text) is an error.
UnmarshalString(text) ==
    IF IsStringText(text) THEN [err |-> FALSE, s |-> SubSeq(text, 2, Len(text) - 1)]
    ELSE IF text = JsonNull THEN [err |-> FALSE, s |-> <<>>]
    ELSE [err |-> TRUE, s |-> <<>>]

\* MustMarshalJson(&JsonRpcError{Code, Message})
MarshalError(code, message) ==
    <<"{", "code", ToString(code), "message">> \o message \o <<"}">>

\* MustMarshalJson(s) of a Go string: always a non-empty text.
MarshalString(s) == <<"\"">> \o s \o <<"\"">>

\* A JsonRpcResponse value (jsonrpcproxy.go:87-94).
Response(id, result, error, status, ctype, time) ==
    [ Result |-> result, Error |-> error, HttpStatus |-> status,
      HttpContentType |-> ctype, UpstreamResponseTime |-> time, Id |-> id ]

NoResponse == Response(NIL, <<>>, <<>>, 0, <<>>, 0)

\* JsonRpcRequest.MakeSimpleResponse
MakeSimpleResponse(rq, x) == Response(rq.Id, MarshalString(x), <<>>, 0, <<>>, 0)

\* SendErrorWithTime putting the error object into Result.
ErrorResponseAsResult(rq, errCode, errMessage, respTime) ==
    Response(rq.Id, MarshalError(errCode, errMessage), <<>>, 0, <<>>, respTime)

\* The response SendErrorWithTime builds.
ErrorResponse(rq, errCode, errMessage, respTime) ==
    Response(rq.Id, <<>>, MarshalError(errCode, errMessage), 0, <<>>, respTime)

\* Texts that are not valid JSON: json.Marshal refuses a RawMessage holding one.
IsInvalidJson(text) == \E i \in 1..Len(text) : text[i] = "{oops"

\* json.Marshal of a JsonRpcResponse: the omitempty fields are left out when
\* empty (a RawMessage of length 0, 0, ""), "id" is always written.
MarshalResponse(x) ==
    [ err       |-> IsInvalidJson(x.Result) \/ IsInvalidJson(x.Error),
      hasResult |-> Len(x.Result) > 0,
      result    |-> x.Result,
      hasError  |-> Len(x.Error) > 0,
      error     |-> x.Error,
      http_status |-> x.HttpStatus,
      http_content_type |-> x.HttpContentType,
      upstream_response_time_seconds |-> x.UpstreamResponseTime,
      id        |-> EncodeId(x.Id) ]

\* ------------------------------------------------ request translation (pure)
SetXRealIpMethod == << <<"httpsocket.setxrealip">> >>

HttpVerbs == { <<"GET">>, <<"POST">>, <<"PUT">>, <<"PATCH">>, <<"DELETE">>,
               <<"HEAD">>, <<"OPTIONS">> }

\* A method string is the tuple of its space-separated words, each a tuple of
\* tokens.  JoinWords puts the spaces back between the words.
RECURSIVE JoinWords(_)
JoinWords(ws) ==
    IF Len(ws) = 0 THEN <<>>
    ELSE IF Len(ws) = 1 THEN ws[1]
    ELSE ws[1] \o <<" ">> \o JoinWords(Tail(ws))

\* The split at every space.
SplitAll(m) == IF Len(m) < 2 THEN <<JoinWords(m)>> ELSE m

\* strings.SplitN(rq.Method, " ", 2)
SplitN2(m) == IF Len(m) < 2 THEN <<JoinWords(m)>> ELSE <<m[1], JoinWords(Tail(m))>>

\* Index of the first token of text, from position i on, that is in stops;
\* Len(text) + 1 when there is none.
RECURSIVE FirstOf(_, _, _)
FirstOf(text, i, stops) ==
    IF i > Len(text) THEN i
    ELSE IF text[i] \in stops THEN i
    ELSE FirstOf(text, i + 1, stops)

\* net/url.Parse: an invalid percent-escape is an error.
UrlParseError(url) == \E i \in 1..Len(url) : url[i] = "%zz"

\* The host without its port.
UrlHostname(url) ==
    IF Len(url) > 0 /\ url[1] = "http://"
    THEN SubSeq(url, 2, FirstOf(url, 2, {"/", "?", ":8080"}) - 1)
    ELSE <<>>

\* net/url.Parse(url).Host: what follows "scheme://" up to the path or query.
UrlHost(url) ==
    IF Len(url) > 0 /\ url[1] = "http://"
    THEN SubSeq(url, 2, FirstOf(url, 2, {"/", "?"}) - 1)
    ELSE <<>>

\* strings.Split(url, "?")[0]
WithoutQuery(url) == SubSeq(url, 1, FirstOf(url, 1, {"?"}) - 1)

\* makeXRequestId
makeXRequestId(t, ip, url) == [t |-> t, ip |-> ip, url |-> WithoutQuery(url)]

\* ReadJSON / json.Unmarshal into a JsonRpcRequest: Params is kept verbatim, Id
\* is decoded into an interface{}.
DecodeRequest(frame) ==
    [ Method |-> frame.method, Params |-> frame.params, Id |-> DecodeId(frame.id) ]

\* handleSpecialMethod answering "ok" without the assignment to c.xRealIp.
handleSpecialMethodKeepsIp(rq, ip) ==
    IF rq.Method = SetXRealIpMethod
    THEN LET u == UnmarshalString(rq.Params)
         IN  IF u.err
             THEN [ handled |-> TRUE, ip |-> ip,
                    reply |-> ErrorResponse(rq, ErrCodeGenericBadRequest,
                                            <<"params must be a string">>, 0) ]
             ELSE [ handled |-> TRUE, ip |-> ip,
                    reply |-> MakeSimpleResponse(rq, <<"ok">>) ]
    ELSE [ handled |-> FALSE, ip |-> ip, reply |-> NoResponse ]

\* handleSpecialMethod: handled is its return value; reply what it sends.
handleSpecialMethod(rq, ip) ==
    IF rq.Method = SetXRealIpMethod
    THEN LET u == UnmarshalString(rq.Params)
         IN  IF u.err
             THEN [ handled |-> TRUE, ip |-> ip,
                    reply |-> ErrorResponse(rq, ErrCodeGenericBadRequest,
                                            <<"params must be a string">>, 0) ]
             ELSE [ handled |-> TRUE, ip |-> u.s,
                    reply |-> MakeSimpleResponse(rq, <<"ok">>) ]
    ELSE [ handled |-> FALSE, ip |-> ip, reply |-> NoResponse ]

\* HandleRpcRequest from the split of the method to the X-Real-IP header of the
\* built http.Request (jsonrpcproxy.go:128-192): either the error it sends, or
\* the upstream request, which has no X-Request-ID yet.
BuildRequest(p, rq, ip) ==
    LET methodAndUrl == SplitN2(rq.Method)
        Fail(code, msg) == [ ok |-> FALSE, reply |-> ErrorResponse(rq, code, msg, 0) ]
    IN
    IF Len(methodAndUrl) # 2 THEN Fail(ErrCodeInvalidMethod, <<"malformed method">>)
    ELSE
    LET method == methodAndUrl[1]
        url    == methodAndUrl[2]
    IN
    IF method \notin HttpVerbs
    THEN Fail(ErrCodeInvalidMethod, <<"unknown HTTP method ">> \o method)
    ELSE IF HasPrefix(url, <<"/">>) /\ p.DefaultHost = <<>>
    THEN Fail(ErrCodeInvalidMethod, <<"must specify protocol://host">>)
    ELSE IF ~HasPrefix(url, <<"/">>) /\ Len(p.WhitelistedUpstreamHosts) > 0
            /\ UrlParseError(url)
    THEN Fail(ErrCodeInvalidMethod, <<"parse error">>)
    ELSE IF ~HasPrefix(url, <<"/">>) /\ Len(p.WhitelistedUpstreamHosts) > 0
            /\ ~\E i \in 1..Len(p.WhitelistedUpstreamHosts) :
                    p.WhitelistedUpstreamHosts[i] = UrlHost(url)
    THEN Fail(ErrCodeInvalidMethod, <<"specified host not in whitelist">>)
    ELSE
    LET url2 == IF HasPrefix(url, <<"/">>)
                THEN <<"http://">> \o p.DefaultHost \o <<"/">> \o url
                ELSE url
        hasBody == method # <<"GET">> /\ method # <<"HEAD">> /\ Len(rq.Params) > 0
        isStr   == hasBody /\ rq.Params[1] = "\""
    IN
    IF UrlParseError(url2)
    THEN Fail(ErrCodeInternalError, <<"parse error">>)
    ELSE [ ok |-> TRUE,
           req |-> [ method |-> method,
                     url |-> url2,
                     body |-> IF isStr THEN SubSeq(rq.Params, 2, Len(rq.Params) - 1)
                              ELSE IF hasBody THEN rq.Params ELSE <<>>,
                     contentType |-> IF isStr THEN <<"application/x-www-form-urlencoded">>
                                     ELSE IF hasBody THEN <<"application/json">> ELSE <<>>,
                     xRealIp |-> ip,
                     xRequestId |-> makeXRequestId(0, <<>>, <<>>) ] ]

\* ------------------------------------------------- response shaping (pure)
IsJsonContentType(ct) ==
    HasPrefix(ct, <<"application/json">>) \/ HasPrefix(ct, <<"text/json">>)

\* A JSON object text is <<"{", key, value, ..., "}">> with one token per key
\* and per value.  FieldOf is the value of key k, <<>> when the key is absent.
IsObjectText(bs) ==
    /\ Len(bs) >= 2 /\ bs[1] = "{" /\ bs[Len(bs)] = "}"
    /\ Len(bs) % 2 = 0
    /\ ~IsInvalidJson(bs)

FieldOf(bs, k) ==
    LET at == {i \in 2..(Len(bs) - 2) : i % 2 = 0 /\ bs[i] = k}
    IN  IF at = {} THEN <<>> ELSE <<bs[(CHOOSE i \in at : TRUE) + 1]>>

\* json.Unmarshal(bs, &JsonRpcLikeResponse{}): an object gives its "result" and
\* "error" members (nil when absent), null gives neither, anything else an error.
UnmarshalRpcLike(bs) ==
    IF IsObjectText(bs)
    THEN [ err |-> FALSE, Result |-> FieldOf(bs, "result"), Error |-> FieldOf(bs, "error") ]
    ELSE IF bs = JsonNull THEN [ err |-> FALSE, Result |-> <<>>, Error |-> <<>> ]
    ELSE [ err |-> TRUE, Result |-> <<>>, Error |-> <<>> ]

\* The shaping with the Id of the response left unset.
ShapeResponseNoId(rq, httpResp, dt) ==
    Response(NIL, MarshalString(httpResp.Body), <<>>, httpResp.StatusCode,
             httpResp.ContentType, dt)

\* HandleRpcRequest from the response value to the call of Send
\* (jsonrpcproxy.go:221-260), the body already read.
ShapeResponse(rq, httpResp, dt) ==
    LET bs == httpResp.Body
        m  == UnmarshalRpcLike(bs)
        result == IF IsJsonContentType(httpResp.ContentType)
                  THEN IF ~m.err /\ (m.Result # <<>> \/ m.Error # <<>>)
                       THEN m.Result ELSE bs
                  ELSE MarshalString(bs)
        error  == IF IsJsonContentType(httpResp.ContentType)
                     /\ ~m.err /\ (m.Result # <<>> \/ m.Error # <<>>)
                  THEN m.Error ELSE <<>>
    IN  Response(rq.Id, result, error, httpResp.StatusCode, httpResp.ContentType, dt)

\* ------------------------------------------------------------------- state
RemoteIp(s) == <<"peer", ToString(s)>>

NoFrame == [method |-> <<>>, params |-> <<>>, id |-> <<>>]
NoUpstreamRequest ==
    [ method |-> <<>>, url |-> <<>>, body |-> <<>>, contentType |-> <<>>,
      xRealIp |-> <<>>, xRequestId |-> makeXRequestId(0, <<>>, <<>>) ]
NoHttpResponse == [StatusCode |-> 0, ContentType |-> <<>>, Body |-> <<>>, readErr |-> FALSE]

\* No httpsocket.setxrealip was answered yet; the last one answered had params
\* that are not a JSON string.
NoIpSet == <<"none">>
NotAString == <<"not a string">>

\* The address a httpsocket.setxrealip request names: the text between the
\* quotes of its params.
NamedIp(frame) ==
    IF Len(frame.params) >= 2 /\ frame.params[1] = "\"" /\ frame.params[Len(frame.params)] = "\""
    THEN SubSeq(frame.params, 2, Len(frame.params) - 1)
    ELSE NotAString

\* A worker: its position, its session, the frame read and the request decoded
\* from it, and the locals of HandleRpcRequest while they are live (the time of
\* the read, the upstream request, the response to send).  Kept until the
\* goroutine ends: via, the branch of HandleRpcRequest it took; httpResp, what
\* the upstream answered; sends, its calls of conn.WriteJSON; behind, the workers of its session whose upstream call had
\* completed, and whose response was not written yet, when its own completed.
\* This is a slot before its request is read.
NoWorker ==
    [ pc |-> "none", sess |-> 0, frame |-> NoFrame, rq |-> DecodeRequest(NoFrame),
      req |-> NoUpstreamRequest, resp |-> NoResponse, readAt |-> 0,
      via |-> "none", httpResp |-> NoHttpResponse, sends |-> 0, behind |-> {} ]

\* A worker slot whose goroutine has ended.
EndedWorker(s, pc) == [ NoWorker EXCEPT !.pc = pc, !.sess = s ]

ZeroTicked ==
    [ connectionAttemptsPerSec |-> 0, connectionsPerSec |-> 0,
      throttledConnectionsPerSec |-> 0, requestsPerSec |-> 0, responsesPerSec |-> 0 ]

\* A goroutine calling a method of a session's counter: its position, the method
\* (op), the arguments of ThrottleIfNeeded, the locals of throttle (t, the second
\* of its argument now; newNow), of TickIfNeeded (prevUnix) and of Tick (scCopy,
\* and step, the swap it is at).  Kept as history: did, what the call has done.
NoCaller ==
    [ pc |-> "idle", op |-> "none", sess |-> 0, rpsLimit |-> 0, activeRequestsLimit |-> 0,
      t |-> 0, newNow |-> 0, prevUnix |-> 0, scCopy |-> ZeroTicked, step |-> 0,
      did |-> <<>> ]

ZeroTally == [ incs |-> ZeroTicked, snaps |-> ZeroTicked, ticks |-> <<>> ]

\* The state when main() starts to listen: globalStatCounter is constructed
\* (wsproxy.go:121-123), no request has arrived.
InitWith(p) ==
    /\ now = 0
    /\ params = p
    /\ global = NewStatCounter(NoParent, 0)
    /\ ticked = ZeroTicked
    /\ sessPc = [s \in Sessions |-> "idle"]
    /\ origin = [s \in Sessions |-> <<>>]
    /\ statCounter = [s \in Sessions |-> NIL]
    /\ xRealIp = [s \in Sessions |-> <<>>]
    /\ gotWriteError = [s \in Sessions |-> FALSE]
    /\ writeLock = [s \in Sessions |-> NoTask]
    /\ connOpen = [s \in Sessions |-> FALSE]
    /\ wire = [s \in Sessions |-> <<>>]
    /\ pingPc = [s \in Sessions |-> "off"]
    /\ calls = [s \in Sessions |->
                  [opened |-> 0, closed |-> 0, ipSet |-> NoIpSet, ipFrom |-> 0, ipLast |-> 0,
                   ipChanged |-> FALSE, lastEvent |-> 0, timedOut |-> FALSE]]
    /\ wk = [w \in Workers |-> NoWorker]
    /\ callers = [c \in Callers |-> NoCaller]
    /\ tally = ZeroTally
    /\ readDeadline = [s \in Sessions |-> 0]

Init == InitWith(ProxyParamsDefault)

\* ------------------------------------------------------- clock and ticking
\* The wall clock goes on by step seconds, up to limit.
ClockBy(step, limit) ==
    /\ now + step <= limit
    /\ now' = now + step
    /\ UNCHANGED << params, global, ticked, sessPc, origin, statCounter, xRealIp,
                    gotWriteError, writeLock, connOpen, wire, pingPc,
                    calls, wk,
                    callers, tally, readDeadline >>

ClockTo(limit) == ClockBy(1, limit)

AdvanceClock == ClockTo(MaxTime)

\* One iteration of globalStatCounter.TickingLoop: the ticker fired for a second
\* the counter has not seen yet.
TickingLoop ==
    /\ global.unixtime < now
    /\ LET scCopy == TickCopy(global)
       IN  ticked' = [ k \in DOMAIN ticked |-> ticked[k] + scCopy[k] ]
    /\ global' = [ Tick(global, now) EXCEPT !.tickLoopRunning = TRUE ]
    /\ UNCHANGED << now, params, sessPc, origin, statCounter, xRealIp, gotWriteError,
                    writeLock, connOpen, wire, pingPc, calls, wk,
                    callers, tally, readDeadline >>

\* The HTTP requests arrive in the order of their numbers.
Arrives(s) == sessPc[s] = "idle" /\ \A r \in 1..(s - 1) : sessPc[r] # "idle"

\* ------------------------------------------------------- WsProxy.ServeWebsocket
\* From the entry to the upgrade: the attempt is counted on the global counter,
\* the origin is checked, the connection is upgraded (dieOnError panics into the
\* panic-catching middleware when the upgrade fails).
WsAttempt(s, o, upgradeOk) ==
    /\ Arrives(s)
    /\ origin' = [origin EXCEPT ![s] = o]
    /\ global' = ConnectionAttempt(global)
    /\ sessPc' = [sessPc EXCEPT ![s] =
                    IF ~CheckOrigin(params, o) THEN "forbidden"
                    ELSE IF upgradeOk THEN "upgraded" ELSE "error500"]
    /\ connOpen' = [connOpen EXCEPT ![s] = CheckOrigin(params, o) /\ upgradeOk]
    /\ UNCHANGED << now, params, ticked, statCounter, xRealIp, gotWriteError,
                    writeLock, wire, pingPc, calls, wk,
                    callers, tally, readDeadline >>

\* The client is built, the connection is counted as opened, the read deadline
\* is set to ReadDeadline from now and the ping goroutine is started
\* (wsproxy.go:155-185).
WsOpen(s) ==
    /\ sessPc[s] = "upgraded"
    /\ statCounter' = [statCounter EXCEPT ![s] = NewStatCounter("global", now)]
    /\ xRealIp' = [xRealIp EXCEPT ![s] = RemoteIp(s)]
    /\ global' = OpenedConnection(global)
    /\ calls' = [calls EXCEPT ![s].opened = @ + 1, ![s].lastEvent = now]
    /\ readDeadline' = [readDeadline EXCEPT ![s] = now + ReadDeadline]
    /\ pingPc' = [pingPc EXCEPT ![s] = "wait"]
    /\ sessPc' = [sessPc EXCEPT ![s] = "reading"]
    /\ UNCHANGED << now, params, ticked, origin, gotWriteError, writeLock, connOpen, wire, wk,
                    callers, tally >>

\* The first worker slot not in use.
FreeWorker == CHOOSE w \in Workers : wk[w].pc = "none" /\ \A v \in 1..(w - 1) : wk[v].pc # "none"

Spawn(s, frame) ==
    [wk EXCEPT ![FreeWorker] =
        [ NoWorker EXCEPT !.pc = "spawned", !.sess = s, !.frame = frame,
                          !.rq = DecodeRequest(frame), !.readAt = now ]]

\* One iteration of the read loop with the read deadline left as it is.
WsReadKeepsDeadline(s, frame) ==
    /\ sessPc[s] = "reading"
    /\ now < readDeadline[s]
    /\ \E w \in Workers : wk[w].pc = "none"
    /\ wk' = Spawn(s, frame)
    /\ calls' = [calls EXCEPT ![s].lastEvent = now]
    /\ UNCHANGED << now, params, global, ticked, sessPc, origin, statCounter, xRealIp,
                    gotWriteError, writeLock, connOpen, wire, pingPc,
                    callers, tally, readDeadline >>

\* One iteration of the read loop: ReadJSON succeeds, which it does only before
\* the read deadline, the request is handed to a new goroutine and the read
\* deadline is set anew.
WsRead(s, frame) ==
    /\ sessPc[s] = "reading"
    /\ now < readDeadline[s]
    /\ \E w \in Workers : wk[w].pc = "none"
    /\ wk' = Spawn(s, frame)
    /\ readDeadline' = [readDeadline EXCEPT ![s] = now + ReadDeadline]
    /\ calls' = [calls EXCEPT ![s].lastEvent = now]
    /\ UNCHANGED << now, params, global, ticked, sessPc, origin, statCounter, xRealIp,
                    gotWriteError, writeLock, connOpen, wire, pingPc,
                    callers, tally >>

\* A pong arrives while ReadJSON waits, before the read deadline: the pong
\* handler sets the read deadline anew.
WsPong(s) ==
    /\ sessPc[s] = "reading"
    /\ now < readDeadline[s]
    /\ readDeadline' = [readDeadline EXCEPT ![s] = now + ReadDeadline]
    /\ calls' = [calls EXCEPT ![s].lastEvent = now]
    /\ UNCHANGED << now, params, global, ticked, sessPc, origin, statCounter, xRealIp,
                    gotWriteError, writeLock, connOpen, wire, pingPc, wk,
                    callers, tally >>

\* ReadJSON fails because the read deadline is reached: break.
WsReadTimeout(s) ==
    /\ sessPc[s] = "reading"
    /\ now >= readDeadline[s]
    /\ sessPc' = [sessPc EXCEPT ![s] = "exiting"]
    /\ calls' = [calls EXCEPT ![s].timedOut = TRUE]
    /\ UNCHANGED << now, params, global, ticked, origin, statCounter, xRealIp,
                    gotWriteError, writeLock, connOpen, wire, pingPc, wk,
                    callers, tally, readDeadline >>

\* ReadJSON fails (a close frame, a decode error, a network error): break.
WsReadError(s) ==
    /\ sessPc[s] = "reading"
    /\ sessPc' = [sessPc EXCEPT ![s] = "exiting"]
    /\ UNCHANGED << now, params, global, ticked, origin, statCounter, xRealIp,
                    gotWriteError, writeLock, connOpen, wire, pingPc,
                    calls, wk,
                    callers, tally, readDeadline >>

\* The deferred calls of ServeWebsocket: pingTicker.Stop, ClosedConnection on the
\* global counter, conn.Close.
WsTeardown(s) ==
    /\ sessPc[s] = "exiting"
    /\ global' = ClosedConnection(global)
    /\ calls' = [calls EXCEPT ![s].closed = @ + 1]
    /\ connOpen' = [connOpen EXCEPT ![s] = FALSE]
    /\ sessPc' = [sessPc EXCEPT ![s] = "closed"]
    /\ UNCHANGED << now, params, ticked, origin, statCounter, xRealIp, gotWriteError,
                    writeLock, wire, pingPc, wk,
                    callers, tally, readDeadline >>

\* ------------------------------------------------------------ ping goroutine
\* A Lock that does not wait.
MutexFreeAlways(s) == TRUE

\* sync.Mutex.Lock returns only when no task holds the mutex.
MutexFree(s) == writeLock[s] = NoTask

\* The ping goroutine going on to write without taking the lock.
PingLockSkipped(s) ==
    /\ pingPc[s] = "wait"
    /\ sessPc[s] \in {"reading", "exiting"}
    /\ pingPc' = [pingPc EXCEPT ![s] = "locked"]
    /\ UNCHANGED << now, params, global, ticked, sessPc, origin, statCounter, xRealIp,
                    gotWriteError, writeLock, connOpen, wire, calls, wk,
                    callers, tally, readDeadline >>

\* The ticker delivers a tick (it does until it is stopped) and the goroutine
\* takes the write lock.
PingLock(s) ==
    /\ pingPc[s] = "wait"
    /\ sessPc[s] \in {"reading", "exiting"}
    /\ MutexFree(s)
    /\ writeLock' = [writeLock EXCEPT ![s] = PingTask]
    /\ pingPc' = [pingPc EXCEPT ![s] = "locked"]
    /\ UNCHANGED << now, params, global, ticked, sessPc, origin, statCounter, xRealIp,
                    gotWriteError, connOpen, wire, calls, wk,
                    callers, tally, readDeadline >>

\* conn.WriteMessage(PingMessage), which fails on a closed socket and may fail
\* on an open one, then Unlock; a failed write ends the goroutine.
PingWrite(s, ok) ==
    /\ pingPc[s] = "locked"
    /\ ok => connOpen[s]
    /\ writeLock' = [writeLock EXCEPT ![s] = NoTask]
    /\ pingPc' = [pingPc EXCEPT ![s] = IF ok THEN "wait" ELSE "exited"]
    /\ UNCHANGED << now, params, global, ticked, sessPc, origin, statCounter, xRealIp,
                    gotWriteError, connOpen, wire, calls, wk,
                    callers, tally, readDeadline >>

\* ------------------------------------------------- ProxyClient.HandleRpcRequest
SessOf(w) == wk[w].sess

\* handleSpecialMethod, then the translation of the request up to the X-Real-IP
\* header, which reads c.xRealIp (jsonrpcproxy.go:124-192).  What is sent is
\* sent by Send, the worker's next steps.
Dispatch(w) ==
    LET s == SessOf(w)
        h == handleSpecialMethod(wk[w].rq, xRealIp[s])
        b == BuildRequest(params, wk[w].rq, xRealIp[s])
    IN
    /\ wk[w].pc = "spawned"
    /\ xRealIp' = [xRealIp EXCEPT ![s] = h.ip]
    /\ wk' = [wk EXCEPT ![w] =
                IF h.handled
                THEN [@ EXCEPT !.pc = "send", !.resp = h.reply, !.readAt = 0, !.via = "special"]
                ELSE IF ~b.ok
                THEN [@ EXCEPT !.pc = "send", !.resp = b.reply, !.readAt = 0, !.via = "rejected"]
                ELSE [@ EXCEPT !.pc = "upstream", !.req = b.req, !.readAt = 0, !.via = "called"]]
    /\ calls' = [calls EXCEPT ![s] =
                    IF h.handled /\ h.reply.Error = <<>>
                    THEN [@ EXCEPT !.ipLast = w, !.ipChanged = TRUE] ELSE @]
    /\ UNCHANGED << now, params, global, ticked, sessPc, origin, statCounter,
                    gotWriteError, writeLock, connOpen, wire, pingPc,
                    callers, tally, readDeadline >>

\* The X-Request-ID header: makeXRequestId reads the clock and c.xRealIp, a
\* second time and without a lock (jsonrpcproxy.go:193, 349-353); the upstream
\* call starts after it.
AddRequestId(w) ==
    /\ wk[w].pc = "upstream"
    /\ wk[w].req.xRequestId = NoUpstreamRequest.xRequestId
    /\ wk' = [wk EXCEPT ![w].req.xRequestId =
                  makeXRequestId(now, xRealIp[SessOf(w)], wk[w].req.url)]
    /\ UNCHANGED << now, params, global, ticked, sessPc, origin, statCounter, xRealIp,
                    gotWriteError, writeLock, connOpen, wire, pingPc,
                    calls,
                    callers, tally, readDeadline >>

\* The same without the return for a request without id.
AfterUpstreamAlwaysSend(rq, failed, httpResp) ==
    IF failed
    THEN [ send |-> TRUE, via |-> "failed",
           resp |-> ErrorResponse(rq, ErrCodeBadGateway, <<"upstream error">>, 1) ]
    ELSE IF httpResp.readErr
    THEN [ send |-> TRUE, via |-> "unread",
           resp |-> ErrorResponse(rq, ErrCodeBadGateway, <<"reading response: ", "EOF">>, 0) ]
    ELSE [ send |-> TRUE, via |-> "answered", resp |-> ShapeResponse(rq, httpResp, 1) ]

\* HandleRpcRequest from the return of httpClient.Do (or the end of the fake
\* upstream sleep) to the call of Send (jsonrpcproxy.go:208-260): a transport
\* error is answered with -502 and the measured time, a request without id ends
\* here, a body that cannot be read is answered with -502, any other response is
\* shaped.
AfterUpstream(rq, failed, httpResp) ==
    IF failed
    THEN [ send |-> TRUE, via |-> "failed",
           resp |-> ErrorResponse(rq, ErrCodeBadGateway, <<"upstream error">>, 1) ]
    ELSE IF rq.Id = NIL THEN [ send |-> FALSE, via |-> "silent", resp |-> NoResponse ]
    ELSE IF httpResp.readErr
    THEN [ send |-> TRUE, via |-> "unread",
           resp |-> ErrorResponse(rq, ErrCodeBadGateway, <<"reading response: ", "EOF">>, 0) ]
    ELSE [ send |-> TRUE, via |-> "answered", resp |-> ShapeResponse(rq, httpResp, 1) ]

\* The workers of session s whose upstream call has completed and whose response
\* is not written yet.
Waiting(s) ==
    { v \in Workers : /\ wk[v].sess = s
                      /\ wk[v].pc \in {"send", "locked"}
                      /\ wk[v].via \in {"failed", "unread", "answered"} }

UpstreamDone(w, failed, httpResp) ==
    LET a == AfterUpstream(wk[w].rq, failed, httpResp) IN
    /\ wk[w].pc = "upstream"
    /\ wk[w].req.xRequestId # NoUpstreamRequest.xRequestId
    /\ wk' = [wk EXCEPT ![w] =
                [@ EXCEPT !.pc = IF a.send THEN "send" ELSE "finish",
                          !.req = NoUpstreamRequest, !.via = a.via,
                          !.httpResp = IF a.via \in {"answered", "unread"}
                                       THEN httpResp ELSE NoHttpResponse,
                          !.behind = IF a.send THEN Waiting(SessOf(w)) ELSE {},
                          !.resp = a.resp]]
    /\ UNCHANGED << now, params, global, ticked, sessPc, origin, statCounter, xRealIp,
                    gotWriteError, writeLock, connOpen, wire, pingPc,
                    calls,
                    callers, tally, readDeadline >>

\* Send: c.writeLock.Lock()
SendLock(w) ==
    LET s == SessOf(w) IN
    /\ wk[w].pc = "send"
    /\ MutexFree(s)
    /\ writeLock' = [writeLock EXCEPT ![s] = w]
    /\ wk' = [wk EXCEPT ![w].pc = "locked"]
    /\ UNCHANGED << now, params, global, ticked, sessPc, origin, statCounter, xRealIp,
                    gotWriteError, connOpen, wire, pingPc, calls,
                    callers, tally, readDeadline >>

\* What WriteJSON puts on the sink for response x, written by worker w.
Frame(w, x) == [by |-> w, kind |-> "json", json |-> MarshalResponse(x)]

\* Send with gotWriteError assigned the outcome of every write, so that a write
\* that succeeds clears it.
SendWriteClearsError(w, ok) ==
    LET s == SessOf(w)
        written == ok /\ connOpen[s] /\ ~MarshalResponse(wk[w].resp).err
    IN
    /\ wk[w].pc = "locked"
    /\ wire' = [wire EXCEPT ![s] = IF written THEN Append(@, Frame(w, wk[w].resp)) ELSE @]
    /\ gotWriteError' = [gotWriteError EXCEPT ![s] = ~written]
    /\ writeLock' = [writeLock EXCEPT ![s] = NoTask]
    /\ wk' = [wk EXCEPT ![w] = [@ EXCEPT !.pc = "finish", !.resp = NoResponse,
                                         !.sends = @ + 1, !.behind = {}]]
    /\ calls' = [calls EXCEPT ![s] =
                    IF written /\ wk[w].via = "special" /\ wk[w].resp.Error = <<>>
                    THEN [@ EXCEPT !.ipSet = NamedIp(wk[w].frame), !.ipFrom = w,
                                   !.ipChanged = FALSE]
                    ELSE @]
    /\ UNCHANGED << now, params, global, ticked, sessPc, origin, statCounter, xRealIp,
                    connOpen, pingPc,
                    callers, tally, readDeadline >>

\* Send: c.conn.WriteJSON(x), then the deferred Unlock.  The write fails when
\* the value cannot be marshalled or the socket is closed, and may fail on an
\* open socket; a failure sets gotWriteError.
SendWrite(w, ok) ==
    LET s == SessOf(w)
        written == ok /\ connOpen[s] /\ ~MarshalResponse(wk[w].resp).err
    IN
    /\ wk[w].pc = "locked"
    /\ wire' = [wire EXCEPT ![s] = IF written THEN Append(@, Frame(w, wk[w].resp)) ELSE @]
    /\ gotWriteError' = [gotWriteError EXCEPT ![s] = IF written THEN @ ELSE TRUE]
    /\ writeLock' = [writeLock EXCEPT ![s] = NoTask]
    /\ wk' = [wk EXCEPT ![w] = [@ EXCEPT !.pc = "finish", !.resp = NoResponse,
                                         !.sends = @ + 1, !.behind = {}]]
    /\ calls' = [calls EXCEPT ![s] =
                    IF written /\ wk[w].via = "special" /\ wk[w].resp.Error = <<>>
                    THEN [@ EXCEPT !.ipSet = NamedIp(wk[w].frame), !.ipFrom = w,
                                   !.ipChanged = FALSE]
                    ELSE @]
    /\ UNCHANGED << now, params, global, ticked, sessPc, origin, statCounter, xRealIp,
                    connOpen, pingPc,
                    callers, tally, readDeadline >>

\* A panic inside HandleRpcRequest: the deferred simpleRecover stops it and the
\* function goes on to its remaining deferred call.
WorkerPanic(w) ==
    /\ wk[w].pc \in {"spawned", "upstream"}
    /\ wk' = [wk EXCEPT ![w] = [@ EXCEPT !.pc = "finish", !.req = NoUpstreamRequest,
                                         !.readAt = 0, !.via = "panic"]]
    /\ UNCHANGED << now, params, global, ticked, sessPc, origin, statCounter, xRealIp,
                    gotWriteError, writeLock, connOpen, wire, pingPc,
                    calls,
                    callers, tally, readDeadline >>

\* The deferred c.statCounter.RequestFinished(), on the client's own counter.
\* It runs after simpleRecover: with a nil counter (ServeHttp sets none) the nil
\* dereference panics out of HandleRpcRequest.
FinishChild(w) ==
    LET s == SessOf(w) IN
    /\ wk[w].pc = "finish"
    /\ IF statCounter[s] = NIL
       THEN /\ wk' = [wk EXCEPT ![w] = EndedWorker(s, "panicked")]
            /\ UNCHANGED statCounter
       ELSE /\ wk' = [wk EXCEPT ![w].pc = "finish2"]
            /\ statCounter' = [statCounter EXCEPT ![s] = RequestFinished(@)]
    /\ UNCHANGED << now, params, global, ticked, sessPc, origin, xRealIp,
                    gotWriteError, writeLock, connOpen, wire, pingPc,
                    calls,
                    callers, tally, readDeadline >>

\* RequestFinished that stops at the child counter.
FinishParentSkipped(w) ==
    /\ wk[w].pc = "finish2"
    /\ wk' = [wk EXCEPT ![w] = EndedWorker(SessOf(w), "done")]
    /\ UNCHANGED << now, params, global, ticked, sessPc, origin, statCounter, xRealIp,
                    gotWriteError, writeLock, connOpen, wire, pingPc,
                    calls,
                    callers, tally, readDeadline >>

\* RequestFinished goes on to the parent counter.
FinishParent(w) ==
    /\ wk[w].pc = "finish2"
    /\ global' = RequestFinished(global)
    /\ wk' = [wk EXCEPT ![w] = EndedWorker(SessOf(w), "done")]
    /\ UNCHANGED << now, params, ticked, sessPc, origin, statCounter, xRealIp,
                    gotWriteError, writeLock, connOpen, wire, pingPc,
                    calls,
                    callers, tally, readDeadline >>

\* ------------------------------------------------------------ WsProxy.ServeHttp
\* The client is built without a statCounter, the body is read and decoded
\* (dieOnError panics into the middleware when that fails) and HandleRpcRequest
\* is called inline.
HttpServe(s, frame, bodyOk) ==
    /\ Arrives(s)
    /\ \E w \in Workers : wk[w].pc = "none"
    /\ xRealIp' = [xRealIp EXCEPT ![s] = RemoteIp(s)]
    /\ IF bodyOk
       THEN /\ sessPc' = [sessPc EXCEPT ![s] = "inline"]
            /\ connOpen' = [connOpen EXCEPT ![s] = TRUE]
            /\ wk' = Spawn(s, frame)
       ELSE /\ sessPc' = [sessPc EXCEPT ![s] = "error500"]
            /\ UNCHANGED << connOpen, wk >>
    /\ UNCHANGED << now, params, global, ticked, origin, statCounter, gotWriteError,
                    writeLock, wire, pingPc, calls,
                    callers, tally, readDeadline >>

\* panicCatcherMiddleware: the panic that left HandleRpcRequest is recovered and
\* http.Error writes the traceback after whatever the handler wrote.
HttpPanicCaught(s) ==
    /\ sessPc[s] = "inline"
    /\ \E w \in Workers : wk[w].sess = s /\ wk[w].pc = "panicked"
    /\ wire' = [wire EXCEPT ![s] =
                  Append(@, [by |-> 0, kind |-> "http500", json |-> MarshalResponse(NoResponse)])]
    /\ sessPc' = [sessPc EXCEPT ![s] = "error500"]
    /\ connOpen' = [connOpen EXCEPT ![s] = FALSE]
    /\ UNCHANGED << now, params, global, ticked, origin, statCounter, xRealIp,
                    gotWriteError, writeLock, pingPc, calls, wk,
                    callers, tally, readDeadline >>

\* ------------------------------------------------- the methods of StatCounter
\* The methods that count an event, and the per-second counter each adds to.
CounterMethods ==
    { "ConnectionAttempt", "OpenedConnection", "ConnectionThrottled",
      "RequestStarted", "RequestFinished" }

KindOf(m) ==
    CASE m = "ConnectionAttempt"   -> "connectionAttemptsPerSec"
      [] m = "OpenedConnection"    -> "connectionsPerSec"
      [] m = "ConnectionThrottled" -> "throttledConnectionsPerSec"
      [] m = "RequestStarted"      -> "requestsPerSec"
      [] m = "RequestFinished"     -> "responsesPerSec"

\* The atomic additions of method m on the counter it is called on.
Apply(m, sc) ==
    CASE m = "ConnectionAttempt"   -> ConnectionAttempt(sc)
      [] m = "OpenedConnection"    -> OpenedConnection(sc)
      [] m = "ConnectionThrottled" -> ConnectionThrottled(sc)
      [] m = "RequestStarted"      -> RequestStarted(sc)
      [] m = "RequestFinished"     -> RequestFinished(sc)

Counted(k) == [tally EXCEPT !.incs[k] = @ + 1]

\* A goroutine calls method m of session s's counter: the additions on that
\* counter; the call on the parent is its next step.
CallMethod(c, s, m) ==
    /\ callers[c].pc = "idle"
    /\ statCounter[s] # NIL
    /\ statCounter' = [statCounter EXCEPT ![s] = Apply(m, @)]
    /\ tally' = Counted(KindOf(m))
    /\ callers' = [callers EXCEPT ![c] = [@ EXCEPT !.pc = "chain", !.op = m, !.sess = s]]
    /\ UNCHANGED << now, params, global, ticked, sessPc, origin, xRealIp, gotWriteError,
                    writeLock, connOpen, wire, pingPc, calls, wk,
                    readDeadline >>

\* sc.parentCounter.<method>(): the same additions on the parent, the root,
\* whose own parent is nil.  throttle goes on to its sleep.
CallParent(c) ==
    LET m == IF callers[c].op = "throttle" THEN "ConnectionThrottled" ELSE callers[c].op IN
    /\ callers[c].pc = "chain"
    /\ global' = Apply(m, global)
    /\ callers' = [callers EXCEPT ![c] =
                     [@ EXCEPT !.pc = IF callers[c].op = "throttle" THEN "sleep" ELSE "returned",
                               !.did = IF callers[c].op = "throttle"
                                       THEN Append(@, "parent") ELSE @]]
    /\ UNCHANGED << now, params, ticked, sessPc, origin, statCounter, xRealIp,
                    gotWriteError, writeLock, connOpen, wire, pingPc, calls, wk, tally,
                    readDeadline >>

\* A goroutine calls ThrottleIfNeeded(time.Now(), rpsLimit, activeRequestsLimit)
\* on session s's counter: the two tests; throttle is entered or the call returns.
CallThrottleIfNeeded(c, s, rpsLimit, activeRequestsLimit) ==
    /\ callers[c].pc = "idle"
    /\ statCounter[s] # NIL
    /\ callers' = [callers EXCEPT ![c] =
                     [@ EXCEPT !.pc = IF ThrottleIfNeeded(statCounter[s], rpsLimit,
                                                          activeRequestsLimit)
                                      THEN "throttle" ELSE "returned",
                               !.op = "throttle", !.sess = s, !.t = now,
                               !.rpsLimit = rpsLimit,
                               !.activeRequestsLimit = activeRequestsLimit]]
    /\ UNCHANGED << now, params, global, ticked, sessPc, origin, statCounter, xRealIp,
                    gotWriteError, writeLock, connOpen, wire, pingPc, calls, wk, tally,
                    readDeadline >>

\* throttle: sc.ConnectionThrottled(), the addition on the counter itself.
throttleCount(c) ==
    /\ callers[c].pc = "throttle"
    /\ statCounter' = [statCounter EXCEPT ![callers[c].sess] = ConnectionThrottled(@)]
    /\ tally' = Counted("throttledConnectionsPerSec")
    /\ callers' = [callers EXCEPT ![c] = [@ EXCEPT !.pc = "chain", !.did = Append(@, "own")]]
    /\ UNCHANGED << now, params, global, ticked, sessPc, origin, xRealIp, gotWriteError,
                    writeLock, connOpen, wire, pingPc, calls, wk,
                    readDeadline >>

\* throttle: time.Sleep(remainingNs) ends, past the boundary of the second of
\* now; newNow := time.Now(); TickIfNeeded is called unless the counter has a
\* ticking loop.
throttleSleep(c) ==
    /\ callers[c].pc = "sleep"
    /\ now > callers[c].t
    /\ callers' = [callers EXCEPT ![c] =
                     [@ EXCEPT !.pc = IF statCounter[callers[c].sess].tickLoopRunning
                                      THEN "returned" ELSE "woke",
                               !.newNow = now, !.did = Append(@, "sleep")]]
    /\ UNCHANGED << now, params, global, ticked, sessPc, origin, statCounter, xRealIp,
                    gotWriteError, writeLock, connOpen, wire, pingPc, calls, wk, tally,
                    readDeadline >>

\* TickIfNeeded(newNow): prevUnix := atomic.SwapInt64(&sc.unixtime, nowUnix), and
\* Tick(nowUnix) is entered if prevUnix < nowUnix.
TickIfNeeded(c) ==
    LET s == callers[c].sess
        ticks == statCounter[s].unixtime < callers[c].newNow
    IN
    /\ callers[c].pc = "woke"
    /\ statCounter' = [statCounter EXCEPT ![s].unixtime = callers[c].newNow]
    /\ callers' = [callers EXCEPT ![c] =
                     [@ EXCEPT !.pc = IF ticks THEN "tick" ELSE "returned",
                               !.prevUnix = statCounter[s].unixtime,
                               !.step = IF ticks THEN 1 ELSE 0]]
    /\ tally' = [tally EXCEPT !.ticks = IF ticks THEN Append(@, callers[c].newNow) ELSE @]
    /\ UNCHANGED << now, params, global, ticked, sessPc, origin, xRealIp, gotWriteError,
                    writeLock, connOpen, wire, pingPc, calls, wk,
                    readDeadline >>

\* The fields Tick swaps, in its order.
TickOrder ==
    << "unixtime", "connectionAttemptsPerSec", "connectionsPerSec",
       "throttledConnectionsPerSec", "requestsPerSec", "responsesPerSec" >>

\* One swap that also resets the other per-second counters.
TickSwappedAll(sc, k, unixtime) ==
    IF k = "unixtime" THEN [sc EXCEPT !.unixtime = unixtime]
    ELSE [sc EXCEPT !.connectionAttemptsPerSec = 0, !.connectionsPerSec = 0,
                    !.throttledConnectionsPerSec = 0, !.requestsPerSec = 0,
                    !.responsesPerSec = 0]

\* The counter after one atomic.SwapInt64 of Tick, on field k.
TickSwapped(sc, k, unixtime) ==
    IF k = "unixtime" THEN [sc EXCEPT !.unixtime = unixtime] ELSE [sc EXCEPT ![k] = 0]

\* Tick(unixtime): one atomic.SwapInt64, the old value going into scCopy.
TickSwap(c) ==
    LET s == callers[c].sess
        k == TickOrder[callers[c].step]
    IN
    /\ callers[c].pc = "tick"
    /\ statCounter' = [statCounter EXCEPT ![s] = TickSwapped(@, k, callers[c].newNow)]
    /\ callers' = [callers EXCEPT ![c] =
                     [@ EXCEPT !.scCopy = IF k = "unixtime" THEN @
                                          ELSE [@ EXCEPT ![k] = statCounter[s][k]],
                               !.step = IF @ = Len(TickOrder) THEN 0 ELSE @ + 1,
                               !.pc = IF callers[c].step = Len(TickOrder)
                                      THEN "load" ELSE "tick"]]
    /\ UNCHANGED << now, params, global, ticked, sessPc, origin, xRealIp, gotWriteError,
                    writeLock, connOpen, wire, pingPc, calls, wk, tally,
                    readDeadline >>

\* Tick: the two gauges are loaded and scCopy is returned.
TickReturn(c) ==
    /\ callers[c].pc = "load"
    /\ tally' = [tally EXCEPT !.snaps = [k \in DOMAIN @ |-> @[k] + callers[c].scCopy[k]]]
    /\ callers' = [callers EXCEPT ![c] = [@ EXCEPT !.pc = "returned", !.scCopy = ZeroTicked]]
    /\ UNCHANGED << now, params, global, ticked, sessPc, origin, statCounter, xRealIp,
                    gotWriteError, writeLock, connOpen, wire, pingPc, calls, wk,
                    readDeadline >>

\* ------------------------------------------------------------------- inputs
Origins == { <<"site", ".ok">>, <<"evil">> }

JsonCt == <<"application/json">>
TextCt == <<"text/plain">>

HttpResponse(ct, body) ==
    [StatusCode |-> 200, ContentType |-> ct, Body |-> body, readErr |-> FALSE]

\* The requests of the specification of the sessions and counters: a malformed
\* method with an id, a well-formed one without.
CoreFrames ==
    { [method |-> << <<"GET">> >>, params |-> <<>>, id |-> <<"\"", "a", "\"">>],
      [method |-> << <<"GET">>, <<"/", "x">> >>, params |-> <<>>, id |-> JsonNull] }

CoreHttpResponses == { HttpResponse(JsonCt, <<"{", "result", "7", "}">>) }

\* The requests of the specification of the writers: well-formed, with a string
\* or a number as id.
WriteFrames ==
    [ method : { << <<"GET">>, <<"/", "x">> >> },
      params : { <<>> },
      id     : { <<"\"", "a", "\"">>, <<"7", ".", "0">> } ]

\* The requests of the specification of the responses: a malformed, a well-formed
\* and the special method; the id absent, null, a string, a number.
ShapeIds == { <<>>, JsonNull, <<"\"", "a", "\"">>, <<"7", ".", "0">> }

ShapeFrames ==
    [ method : { << <<"GET">> >>, << <<"GET">>, <<"/", "x">> >> },
      params : { <<>> },
      id     : ShapeIds ]
    \cup
    [ method : { SetXRealIpMethod },
      params : { <<>>, <<"\"", "10.0.0.1", "\"">> },
      id     : ShapeIds ]

\* The upstream responses: JSON objects with result, error, both, neither; a
\* JSON array; an empty body; a body that is not JSON under a JSON content type;
\* a text body; a body that cannot be read.
ShapeHttpResponses ==
    { HttpResponse(JsonCt, b) :
        b \in { <<"{", "result", "7", "}">>,
                <<"{", "error", "8", "}">>,
                <<"{", "result", "7", "error", "8", "}">>,
                <<"{", "k", "1", "}">>,
                <<"[", "]">>,
                <<>>,
                <<"{oops">> } }
    \cup { HttpResponse(TextCt, <<"hi">>),
           [ HttpResponse(JsonCt, <<>>) EXCEPT !.readErr = TRUE ] }

\* Configurations: the default one, one without default host, one without
\* whitelist of upstream hosts.
RouteParams ==
    { ProxyParamsDefault,
      [ProxyParamsDefault EXCEPT !.DefaultHost = <<>>],
      [ProxyParamsDefault EXCEPT !.WhitelistedUpstreamHosts = <<>>] }

\* The method strings of the specification of the request translation: "GET",
\* "GET ", " /x", "FETCH /x", "GET /x", "POST /x y", and GET of the absolute
\* URLs http://good/x, http://good:8080/x, http://evil/x, http://%zz.
RouteMethods ==
    { << <<"GET">> >>,
      << <<"GET">>, <<>> >>,
      << <<>>, <<"/", "x">> >>,
      << <<"FETCH">>, <<"/", "x">> >>,
      << <<"GET">>, <<"/", "x">> >>,
      << <<"POST">>, <<"/", "x">>, <<"y">> >>,
      << <<"GET">>, <<"http://", "good", "/", "x">> >>,
      << <<"GET">>, <<"http://", "good", ":8080", "/", "x">> >>,
      << <<"GET">>, <<"http://", "evil", "/", "x">> >>,
      << <<"GET">>, <<"http://", "%zz">> >> }

\* The params of httpsocket.setxrealip: a string, null, a number, a boolean, an
\* object, an array, none.
IpParams ==
    { <<"\"", "10.0.0.1", "\"">>, JsonNull, <<"7">>, <<"true">>,
      <<"{", "}">>, <<"[", "]">>, <<>> }

RouteFrames ==
    [ method : RouteMethods, params : { <<>> }, id : { <<"\"", "a", "\"">> } ]
    \cup
    [ method : { SetXRealIpMethod }, params : IpParams, id : { <<"\"", "a", "\"">> } ]

\* Configurations of the origin whitelist: an empty entry and ".ok", no entry,
\* only an empty entry.
OriginParams ==
    { ProxyParamsDefault,
      [ProxyParamsDefault EXCEPT !.WhitelistedOrigins = <<>>],
      [ProxyParamsDefault EXCEPT !.WhitelistedOrigins = << <<>> >>] }

\* Origin headers: ending with ".ok", containing it elsewhere, without it, none.
ConnOrigins == { <<"site", ".ok">>, <<".ok", "x">>, <<"evil">>, <<>> }

\* The requests of the specification of X-Real-IP: the special method naming
\* one of two addresses or null, and a well-formed request.
IpFrames ==
    [ method : { SetXRealIpMethod },
      params : { <<"\"", "10.0.0.1", "\"">>, <<"\"", "10.0.0.2", "\"">>, JsonNull },
      id     : { <<"\"", "a", "\"">> } ]
    \cup
    [ method : { << <<"GET">>, <<"/", "x">> >> }, params : { <<>> }, id : { <<"\"", "a", "\"">> } ]

\* ----------------------------------------------------------- specifications
\* Sessions, workers and counters: every task of the program but the pings.
Next ==
    \/ AdvanceClock
    \/ TickingLoop
    \/ \E s \in Sessions, o \in Origins, ok \in BOOLEAN : WsAttempt(s, o, ok)
    \/ \E s \in Sessions : WsOpen(s)
    \/ \E s \in Sessions, f \in CoreFrames : WsRead(s, f)
    \/ \E s \in Sessions : WsReadError(s)
    \/ \E s \in Sessions : WsTeardown(s)
    \/ \E s \in Sessions, f \in CoreFrames, ok \in BOOLEAN : HttpServe(s, f, ok)
    \/ \E s \in Sessions : HttpPanicCaught(s)
    \/ \E w \in Workers : Dispatch(w)
    \/ \E w \in Workers : AddRequestId(w)
    \/ \E w \in Workers, r \in CoreHttpResponses, failed \in BOOLEAN : UpstreamDone(w, failed, r)
    \/ \E w \in Workers : SendLock(w)
    \/ \E w \in Workers : SendWrite(w, TRUE)
    \/ \E w \in Workers : WorkerPanic(w)
    \/ \E w \in Workers : FinishChild(w)
    \/ \E w \in Workers : FinishParent(w)

Spec == Init /\ [][Next]_vars

\* The specifications of the writers and of the responses follow one session,
\* the first to arrive: a client's write lock, sink and responses are its own.
OneSession == { s \in Sessions : \A r \in Sessions : s <= r }

\* The writers of a WebSocket session: concurrent workers and the ping
\* goroutine, writes that fail, a socket that closes under them.
NextWrite ==
    \/ \E s \in OneSession, o \in Origins : WsAttempt(s, o, TRUE)
    \/ \E s \in OneSession : WsOpen(s)
    \/ \E s \in OneSession, f \in WriteFrames : WsRead(s, f)
    \/ \E s \in OneSession : WsReadError(s)
    \/ \E s \in OneSession : WsTeardown(s)
    \/ \E s \in OneSession : PingLock(s)
    \/ \E s \in OneSession, ok \in BOOLEAN : PingWrite(s, ok)
    \/ \E w \in Workers : Dispatch(w)
    \/ \E w \in Workers : AddRequestId(w)
    \/ \E w \in Workers, r \in CoreHttpResponses : UpstreamDone(w, FALSE, r)
    \/ \E w \in Workers : SendLock(w)
    \/ \E w \in Workers, ok \in BOOLEAN : SendWrite(w, ok)
    \/ \E w \in Workers : FinishChild(w)
    \/ \E w \in Workers : FinishParent(w)

SpecWrite == Init /\ [][NextWrite]_vars

\* No worker is running.
Quiet == \A w \in Workers : wk[w].pc \in {"none", "done", "panicked"}

\* The responses: every kind of request and of upstream outcome, from a client
\* that sends a request when the one before it has been handled.
NextShape ==
    \/ \E s \in OneSession, o \in Origins : WsAttempt(s, o, TRUE)
    \/ \E s \in OneSession : WsOpen(s)
    \/ \E s \in OneSession, f \in ShapeFrames : Quiet /\ WsRead(s, f)
    \/ \E s \in OneSession : WsReadError(s)
    \/ \E s \in OneSession : WsTeardown(s)
    \/ \E s \in OneSession, f \in ShapeFrames : Quiet /\ HttpServe(s, f, TRUE)
    \/ \E s \in OneSession : HttpPanicCaught(s)
    \/ \E w \in Workers : Dispatch(w)
    \/ \E w \in Workers : AddRequestId(w)
    \/ \E w \in Workers, r \in ShapeHttpResponses, failed \in BOOLEAN : UpstreamDone(w, failed, r)
    \/ \E w \in Workers : SendLock(w)
    \/ \E w \in Workers : SendWrite(w, TRUE)
    \/ \E w \in Workers : WorkerPanic(w)
    \/ \E w \in Workers : FinishChild(w)
    \/ \E w \in Workers : FinishParent(w)

SpecShape == Init /\ [][NextShape]_vars

\* The translation of requests under each configuration, from a client that
\* sends a request when the one before it has been handled.
InitRoute == \E p \in RouteParams : InitWith(p)

NextRoute ==
    \/ \E s \in OneSession, o \in Origins : WsAttempt(s, o, TRUE)
    \/ \E s \in OneSession : WsOpen(s)
    \/ \E s \in OneSession, f \in RouteFrames : Quiet /\ WsRead(s, f)
    \/ \E s \in OneSession : WsReadError(s)
    \/ \E s \in OneSession : WsTeardown(s)
    \/ \E w \in Workers : Dispatch(w)
    \/ \E w \in Workers : AddRequestId(w)
    \/ \E w \in Workers, r \in CoreHttpResponses, failed \in BOOLEAN : UpstreamDone(w, failed, r)
    \/ \E w \in Workers : SendLock(w)
    \/ \E w \in Workers : SendWrite(w, TRUE)
    \/ \E w \in Workers : FinishChild(w)
    \/ \E w \in Workers : FinishParent(w)

SpecRoute == InitRoute /\ [][NextRoute]_vars

\* The WebSocket connections under each configuration of the origin whitelist:
\* attempts, upgrades, the ends of the sessions, and the ticking loop.
InitConn == \E p \in OriginParams : InitWith(p)

NextConn ==
    \/ AdvanceClock
    \/ TickingLoop
    \/ \E s \in Sessions, o \in ConnOrigins, ok \in BOOLEAN : WsAttempt(s, o, ok)
    \/ \E s \in Sessions : WsOpen(s)
    \/ \E s \in Sessions : WsReadError(s)
    \/ \E s \in Sessions : WsTeardown(s)

SpecConn == InitConn /\ [][NextConn]_vars

\* The limits ThrottleIfNeeded is called with: negative, 0, 1, 2.
Limits == { 0 - 1, 0, 1, 2 }

\* The counter of one open WebSocket session and the root, with requests
\* started and in flight, and goroutines that call the counter's methods
\* concurrently.  The clock runs one second further than elsewhere, for two
\* sleeps to end in different seconds.
InitCounter ==
    \E requests \in 0..MaxCount, active \in 0..MaxCount :
        /\ now = 0
        /\ params = ProxyParamsDefault
        /\ global = [ OpenedConnection(ConnectionAttempt(NewStatCounter(NoParent, 0)))
                        EXCEPT !.requestsPerSec = requests, !.activeRequests = active ]
        /\ ticked = ZeroTicked
        /\ sessPc = [s \in Sessions |-> IF s \in OneSession THEN "reading" ELSE "idle"]
        /\ origin = [s \in Sessions |-> IF s \in OneSession THEN <<"site", ".ok">> ELSE <<>>]
        /\ statCounter = [s \in Sessions |->
                            IF s \in OneSession
                            THEN [ NewStatCounter("global", 0)
                                     EXCEPT !.requestsPerSec = requests,
                                            !.activeRequests = active ]
                            ELSE NIL]
        /\ xRealIp = [s \in Sessions |-> IF s \in OneSession THEN RemoteIp(s) ELSE <<>>]
        /\ gotWriteError = [s \in Sessions |-> FALSE]
        /\ writeLock = [s \in Sessions |-> NoTask]
        /\ connOpen = [s \in Sessions |-> s \in OneSession]
        /\ wire = [s \in Sessions |-> <<>>]
        /\ pingPc = [s \in Sessions |-> IF s \in OneSession THEN "wait" ELSE "off"]
        /\ calls = [s \in Sessions |->
                      [opened |-> IF s \in OneSession THEN 1 ELSE 0, closed |-> 0,
                       ipSet |-> NoIpSet, ipFrom |-> 0, ipLast |-> 0, ipChanged |-> FALSE,
                       lastEvent |-> 0, timedOut |-> FALSE]]
        /\ wk = [w \in Workers |-> NoWorker]
        /\ callers = [c \in Callers |-> NoCaller]
        /\ tally = [ZeroTally EXCEPT !.incs.requestsPerSec = requests]
        /\ readDeadline = [s \in Sessions |-> IF s \in OneSession THEN ReadDeadline ELSE 0]

NextCounter ==
    \/ ClockTo(MaxTime + 1)
    \/ \E c \in Callers, s \in OneSession, m \in CounterMethods : CallMethod(c, s, m)
    \/ \E c \in Callers : CallParent(c)
    \/ \E c \in Callers, s \in OneSession, rps \in Limits, conc \in Limits :
          CallThrottleIfNeeded(c, s, rps, conc)
    \/ \E c \in Callers : throttleCount(c)
    \/ \E c \in Callers : throttleSleep(c)
    \/ \E c \in Callers : TickIfNeeded(c)
    \/ \E c \in Callers : TickSwap(c)
    \/ \E c \in Callers : TickReturn(c)

SpecCounter == InitCounter /\ [][NextCounter]_vars

\* X-Real-IP: all sessions, their workers running concurrently.
NextIp ==
    \/ \E s \in Sessions, o \in Origins : WsAttempt(s, o, TRUE)
    \/ \E s \in Sessions : WsOpen(s)
    \/ \E s \in Sessions, f \in IpFrames : WsRead(s, f)
    \/ \E s \in Sessions : WsReadError(s)
    \/ \E s \in Sessions : WsTeardown(s)
    \/ \E w \in Workers : Dispatch(w)
    \/ \E w \in Workers : AddRequestId(w)
    \/ \E w \in Workers, r \in CoreHttpResponses : UpstreamDone(w, FALSE, r)
    \/ \E w \in Workers : SendLock(w)
    \/ \E w \in Workers : SendWrite(w, TRUE)
    \/ \E w \in Workers : FinishChild(w)
    \/ \E w \in Workers : FinishParent(w)

SpecIp == Init /\ [][NextIp]_vars

\* The read deadline: one session, the clock going on in sixths of the read
\* deadline until one sixth, or more with MaxTime, after the first deadline.
NextDeadline ==
    \/ \E s \in OneSession, o \in Origins : WsAttempt(s, o, TRUE)
    \/ \E s \in OneSession : WsOpen(s)
    \/ \E s \in OneSession, f \in CoreFrames : WsRead(s, f)
    \/ \E s \in OneSession : WsPong(s)
    \/ \E s \in OneSession : WsReadError(s)
    \/ \E s \in OneSession : WsReadTimeout(s)
    \/ \E s \in OneSession : WsTeardown(s)
    \/ \E w \in Workers : Dispatch(w)
    \/ \E w \in Workers : AddRequestId(w)
    \/ \E w \in Workers, r \in CoreHttpResponses : UpstreamDone(w, FALSE, r)
    \/ \E w \in Workers : SendLock(w)
    \/ \E w \in Workers : SendWrite(w, TRUE)
    \/ \E w \in Workers : FinishChild(w)
    \/ \E w \in Workers : FinishParent(w)
    \/ ClockBy(ReadDeadline \div 6, ReadDeadline + MaxTime * (ReadDeadline \div 6))

SpecDeadline == Init /\ [][NextDeadline]_vars

\* ------------------------------------------------------ counters: properties
RECURSIVE SumOver(_, _)
SumOver(f, S) ==
    IF S = {} THEN 0
    ELSE LET x == CHOOSE x \in S : TRUE IN f[x] + SumOver(f, S \ {x})

\* The sessions that have a child counter, and what the children recorded.
Children == { s \in Sessions : statCounter[s] # NIL }
ChildTotal(k) == SumOver([s \in Children |-> statCounter[s][k]], Children)

\* What the root recorded in all: the snapshots taken by the ticks, and the
\* current second.
RootTotal(k) == ticked[k] + global[k]

\* The workers that run HandleRpcRequest for session s.
InFlight(s) ==
    { w \in Workers : wk[w].sess = s
                      /\ wk[w].pc \in {"spawned", "upstream", "send", "locked"} }

\* C1: in every reachable state the active-connections gauge and the
\* active-requests gauge of every StatCounter (the root and each session's
\* child) are >= 0.
C1_GaugesNonNegative ==
    /\ global.activeConnections >= 0
    /\ global.activeRequests >= 0
    /\ \A s \in Children : /\ statCounter[s].activeConnections >= 0
                           /\ statCounter[s].activeRequests >= 0

\* C2: once all workers have finished, on every session's counter and on the
\* root the requests started in all equal the requests finished in all and
\* active-requests is 0.
C2_StartedEqualsFinished ==
    Quiet =>
        /\ RootTotal("requestsPerSec") = RootTotal("responsesPerSec")
        /\ global.activeRequests = 0
        /\ \A s \in Children :
              /\ statCounter[s].requestsPerSec = statCounter[s].responsesPerSec
              /\ statCounter[s].activeRequests = 0

\* The handlers between the upgrade and the end of the teardown.
OpenSessions == { s \in Sessions : sessPc[s] \in {"upgraded", "reading", "exiting"} }
Opened == SumOver([s \in Sessions |-> calls[s].opened], Sessions)
Closed == SumOver([s \in Sessions |-> calls[s].closed], Sessions)

\* C5: an upgraded session has called OpenedConnection exactly once when its
\* read loop runs, ClosedConnection exactly once when its handler has returned
\* and never before; the root counter has recorded every opening, its
\* active-connections gauge is the openings less the closings, and when every
\* session is torn down the openings equal the closings and the gauge is 0.
C5_OpenedClosedPaired ==
    /\ \A s \in Sessions :
          /\ calls[s].opened = IF sessPc[s] \in {"reading", "exiting", "closed"} THEN 1 ELSE 0
          /\ calls[s].closed = IF sessPc[s] = "closed" THEN 1 ELSE 0
    /\ RootTotal("connectionsPerSec") = Opened
    /\ global.activeConnections = Opened - Closed
    /\ OpenSessions = {} => Opened = Closed /\ global.activeConnections = 0

\* Two sessions were opened and torn down, none is open.
C5_Witness ==
    /\ OpenSessions = {}
    /\ Cardinality({ s \in Sessions : sessPc[s] = "closed" }) >= 2

\* No RequestFinished is between the child counter and its parent.
Quiescent == \A w \in Workers : wk[w].pc # "finish2"

PerSecKinds ==
    { "connectionAttemptsPerSec", "connectionsPerSec", "throttledConnectionsPerSec",
      "requestsPerSec", "responsesPerSec" }

\* C6 as claimed: at any quiescent point, for each counter kind the increments
\* recorded on the session child counters add up to those recorded on the root.
C6_ChildrenAddUpToParent ==
    Quiescent =>
        /\ \A k \in PerSecKinds : ChildTotal(k) = RootTotal(k)
        /\ ChildTotal("activeConnections") = global.activeConnections
        /\ ChildTotal("activeRequests") = global.activeRequests

\* C6 amended: at any quiescent point what the child counters recorded is
\* recorded on the root (for no kind the children add up to more), with equality
\* for the requests finished and the active-requests gauge; connection attempts,
\* opened and closed connections are recorded on the root alone.
C6_ChildIncrementsReachParent ==
    Quiescent =>
        /\ \A k \in PerSecKinds : ChildTotal(k) <= RootTotal(k)
        /\ ChildTotal("responsesPerSec") = RootTotal("responsesPerSec")
        /\ ChildTotal("activeRequests") = global.activeRequests
        /\ \A k \in {"connectionAttemptsPerSec", "connectionsPerSec", "activeConnections"} :
              ChildTotal(k) = 0

\* Two sessions with a child counter, each with a finished request, after a tick.
C6_Witness ==
    /\ Quiescent
    /\ Cardinality({ s \in Children : statCounter[s].responsesPerSec >= 1 }) >= 2
    /\ ticked.connectionAttemptsPerSec >= 1

\* The child counter of session s as it stands when ThrottleIfNeeded is called
\* by a worker that has called RequestStarted: the requests in flight, the
\* requests read in this second that are not dispatched yet.
CounterAtThrottle(s) ==
    [ ZeroCounter("global") EXCEPT
        !.activeRequests = Cardinality(InFlight(s)),
        !.requestsPerSec = Cardinality({ v \in InFlight(s) :
                              wk[v].pc = "spawned" /\ wk[v].readAt = now }) ]

\* C10: a worker of a session with a counter has called RequestStarted when its
\* upstream call starts (the session's active-requests gauge counts it), and
\* when a configured limit is reached the call does not start in the second the
\* request was read in.
C10_ThrottledBeforeUpstream ==
    [][ \A w \in Workers :
          (wk[w].pc = "spawned" /\ wk'[w].pc = "upstream" /\ SessOf(w) \in Children) =>
              /\ statCounter[SessOf(w)].activeRequests >= 1
              /\ ThrottleIfNeeded(CounterAtThrottle(SessOf(w)), throttleRpsPerClient,
                                  throttleConcurrentRequestsPerClient)
                    => now > wk[w].readAt ]_vars

\* ------------------------------------------------------- writes: properties
\* The workers whose HandleRpcRequest has returned from its body without a
\* panic and has its deferred calls left to run.
Handled == { w \in Workers : wk[w].pc \in {"finish", "finish2"} /\ wk[w].via # "panic" }

HasNoId(w) == wk[w].frame.id \in { <<>>, JsonNull }

Writers(s) == { w \in Workers : wk[w].sess = s /\ wk[w].pc = "locked" }

\* C4: at most one task of a session (a worker or the ping goroutine) is
\* between Lock and Unlock, where its one write happens; that task is the
\* holder of the write lock, and the lock is free when no task is there.
C4_OneWriterAtATime ==
    \A s \in Sessions :
        LET n == Cardinality(Writers(s)) + (IF pingPc[s] = "locked" THEN 1 ELSE 0)
        IN  /\ n <= 1
            /\ \A w \in Writers(s) : writeLock[s] = w
            /\ pingPc[s] = "locked" => writeLock[s] = PingTask
            /\ n = 0 => writeLock[s] = NoTask

\* The ping goroutine holds the lock while a worker of the session waits to send.
C4_Witness ==
    \E s \in Sessions, w \in Workers :
        /\ pingPc[s] = "locked"
        /\ wk[w].sess = s /\ wk[w].pc = "send"

\* The frames session s's workers have written.
FramesBy(s, w) == { i \in 1..Len(wire[s]) : wire[s][i].by = w }

C9_WrittenInCompletionOrder ==
    [][ \A w \in Workers :
          (wk[w].pc = "locked" /\ wk'[w].pc = "finish"
              /\ wire'[SessOf(w)] # wire[SessOf(w)]) =>
              \A v \in wk[w].behind : wk[v].pc \notin {"send", "locked"} ]_vars

\* C9 amended: the responses of a session are written one at a time, each one
\* appended whole by the one worker that holds the write lock, which it releases
\* with the write: the order of the responses is the order in which the workers
\* took the lock, whatever the order of the reads and of the upstream completions.
C9_WrittenInLockOrder ==
    [][ \A s \in Sessions :
          wire'[s] # wire[s] =>
              \E w \in Workers :
                  /\ Writers(s) = {w}
                  /\ writeLock[s] = w
                  /\ wire'[s] = Append(wire[s], Frame(w, wk[w].resp))
                  /\ writeLock'[s] = NoTask ]_vars

\* The request read second was answered first.
C9_Witness ==
    \E s \in Sessions :
        /\ Len(wire[s]) = 2
        /\ wire[s][1].by > wire[s][2].by

\* ---------------------------------------------------- responses: properties
\* The response a worker whose handling has completed has written.
Written(w) == { wire[SessOf(w)][i].json : i \in FramesBy(SessOf(w), w) }

\* C8 as claimed: every response written for a request with a non-null id whose
\* call completed contains exactly one of result and error.
C8_ExactlyOneOfResultAndError ==
    \A w \in Handled : \A x \in Written(w) :
        ~HasNoId(w) => (x.hasResult /\ ~x.hasError) \/ (~x.hasResult /\ x.hasError)

\* The members of the body of the upstream response that the shaping looks at.
BodyHas(w, k) ==
    /\ IsObjectText(wk[w].httpResp.Body)
    /\ FieldOf(wk[w].httpResp.Body, k) # <<>>

\* C8 amended: a response the proxy makes itself contains exactly one of result
\* and error (error for a rejected request, an upstream failure or an unreadable
\* body; result or error for the special method).  A response shaped from an
\* upstream answer contains what the answer has: of a JSON object with a result
\* or an error member those members (both when it has both), of any other JSON
\* body the body as result (none when the body is empty), of any other content
\* type the body as a string in result.
C8_ResultAndErrorAsUpstream ==
    \A w \in Handled : \A x \in Written(w) :
        /\ wk[w].via \in {"rejected", "failed", "unread"} => ~x.hasResult /\ x.hasError
        /\ wk[w].via = "special" => (x.hasResult /\ ~x.hasError) \/ (~x.hasResult /\ x.hasError)
        /\ wk[w].via = "answered" =>
              IF ~IsJsonContentType(wk[w].httpResp.ContentType)
              THEN x.hasResult /\ ~x.hasError
              ELSE IF BodyHas(w, "result") \/ BodyHas(w, "error")
              THEN /\ x.hasResult <=> BodyHas(w, "result")
                   /\ x.hasError <=> BodyHas(w, "error")
              ELSE /\ ~x.hasError
                   /\ x.hasResult <=> wk[w].httpResp.Body # <<>>
                   /\ x.result = wk[w].httpResp.Body

\* A response with both result and error was written for a request with an id.
C8_Witness ==
    \E w \in Handled : \E x \in Written(w) :
        ~HasNoId(w) /\ wk[w].via = "answered" /\ x.hasResult /\ x.hasError


\* ---------------------------------------- request translation: properties
\* The verb and the target of worker w's request: the method up to its first
\* space and what follows that space.
Verb(w) == wk[w].frame.method[1]
Target(w) == JoinWords(Tail(wk[w].frame.method))

\* The workers past the translation of a request that is not a special method.
Translated ==
    { w \in Workers : /\ wk[w].pc \in {"upstream", "send", "locked", "finish", "finish2"}
                      /\ wk[w].via # "panic"
                      /\ wk[w].frame.method # SetXRealIpMethod }

\* The responses worker w has produced: the one it is about to write, or the
\* ones it wrote.
Produced(w) ==
    IF wk[w].pc \in {"send", "locked"} THEN { MarshalResponse(wk[w].resp) } ELSE Written(w)

IsErrorReply(x, code, message) ==
    x.hasError /\ ~x.hasResult /\ x.error = MarshalError(code, message)

\* Worker w answers its request with the one error given and makes no upstream
\* call.
RejectedWith(w, code, message) ==
    /\ wk[w].pc # "upstream"
    /\ wk[w].httpResp = NoHttpResponse
    /\ wk[w].via = "rejected"
    /\ wk[w].sends = IF wk[w].pc \in {"send", "locked"} THEN 0 ELSE 1
    /\ \A x \in Produced(w) : IsErrorReply(x, code, message)

\* A step of a worker that rejects its request leaves the session reading and
\* its socket open.
RejectedKeepsReading ==
    \A w \in Workers :
        ((wk[w].via = "rejected" \/ wk'[w].via = "rejected") /\ wk'[w] # wk[w])
        => /\ sessPc'[SessOf(w)] = sessPc[SessOf(w)]
           /\ connOpen'[SessOf(w)] = connOpen[SessOf(w)]

\* The workers whose request names an absolute URL that parses, under a
\* non-empty whitelist.
NamesAbsoluteUrl ==
    { w \in Translated : /\ Len(params.WhitelistedUpstreamHosts) > 0
                         /\ Len(wk[w].frame.method) >= 2
                         /\ Verb(w) \in HttpVerbs
                         /\ ~HasPrefix(Target(w), <<"/">>)
                         /\ \A i \in 1..Len(Target(w)) : Target(w)[i] # "%zz" }

\* C11: under a non-empty whitelist of upstream hosts a request naming an
\* absolute URL is passed upstream only if the host of the URL, port included,
\* equals a whitelist entry; otherwise exactly one error -32601 "specified host
\* not in whitelist" is produced, no upstream call is made and the session keeps
\* reading.  (The host is whitelisted when the target is "http://", a whitelist
\* entry, and then nothing or a path or a query.)
C11_OnlyWhitelistedHostsCalled ==
    /\ [](\A w \in NamesAbsoluteUrl :
            LET whitelisted ==
                    \E i \in 1..Len(params.WhitelistedUpstreamHosts),
                       n \in 0..Len(Target(w)) :
                        /\ SubSeq(Target(w), 1, n) =
                              <<"http://">> \o params.WhitelistedUpstreamHosts[i]
                        /\ (n = Len(Target(w)) \/ Target(w)[n + 1] \in {"/", "?"})
            IN  IF whitelisted
                THEN wk[w].via # "rejected"
                ELSE RejectedWith(w, ErrCodeInvalidMethod,
                                  <<"specified host not in whitelist">>))
    /\ [][RejectedKeepsReading]_vars

\* A request for http://good:8080/x was rejected under the whitelist [good] and
\* its error written.
C11_Witness ==
    \E w \in NamesAbsoluteUrl :
        /\ Target(w) = <<"http://", "good", ":8080", "/", "x">>
        /\ wk[w].pc = "finish"
        /\ Written(w) # {}

\* The validation of worker w's request, the method being malformed when
\* malformed holds: the first check that fails gives the one error, and none of
\* the three messages of the validation is produced when all checks pass.
ValidatedInOrder(w, malformed) ==
    IF malformed
    THEN RejectedWith(w, ErrCodeInvalidMethod, <<"malformed method">>)
    ELSE IF Verb(w) \notin HttpVerbs
    THEN RejectedWith(w, ErrCodeInvalidMethod, <<"unknown HTTP method ">> \o Verb(w))
    ELSE IF HasPrefix(Target(w), <<"/">>) /\ params.DefaultHost = <<>>
    THEN RejectedWith(w, ErrCodeInvalidMethod, <<"must specify protocol://host">>)
    ELSE \A x \in Produced(w) :
            \A m \in { <<"malformed method">>, <<"unknown HTTP method ">> \o Verb(w),
                       <<"must specify protocol://host">> } :
                ~IsErrorReply(x, ErrCodeInvalidMethod, m)

\* C20 as claimed: a request that is not special is validated in this order: its
\* method splits on the first space into two non-empty parts, else -32601
\* "malformed method"; the verb is one of the seven, else -32601 "unknown HTTP
\* method <verb>"; a target starting with "/" needs a default host, else -32601
\* "must specify protocol://host".  A failure produces exactly one error
\* response and no upstream call, and the session keeps reading.
C20_ValidatedNonEmptyParts ==
    /\ [](\A w \in Translated :
            ValidatedInOrder(w, \/ Len(wk[w].frame.method) < 2
                                \/ Verb(w) = <<>>
                                \/ Target(w) = <<>>))
    /\ [][RejectedKeepsReading]_vars

\* C20 amended: the same, the method being malformed only when it has no space:
\* an empty verb is an unknown HTTP method, an empty target goes on to the checks
\* of the target.
C20_ValidatedTwoParts ==
    /\ [](\A w \in Translated : ValidatedInOrder(w, Len(wk[w].frame.method) < 2))
    /\ [][RejectedKeepsReading]_vars

\* The method " /x" was answered with "unknown HTTP method ", and nothing else
\* was written for it.
C20_Witness ==
    \E w \in Translated :
        /\ Verb(w) = <<>>
        /\ wk[w].pc = "finish"
        /\ Cardinality(FramesBy(SessOf(w), w)) = 1
        /\ \A x \in Written(w) : IsErrorReply(x, ErrCodeInvalidMethod, <<"unknown HTTP method ">>)

\* ------------------------------------------------------ X-Real-IP: properties
\* C13: a httpsocket.setxrealip request whose params is not a JSON string is
\* answered with the error 400 "params must be a string" (every response of a
\* worker past handleSpecialMethod for such a request is that error) and leaves
\* the X-Real-IP of the session as it was (the step that handles it changes no
\* X-Real-IP).
C13_NonStringParamsRejected ==
    /\ [](\A w \in Workers :
            (/\ wk[w].pc \in {"send", "locked", "finish", "finish2"}
             /\ wk[w].frame.method = SetXRealIpMethod
             /\ NamedIp(wk[w].frame) = NotAString)
            => \A x \in Produced(w) :
                  IsErrorReply(x, ErrCodeGenericBadRequest, <<"params must be a string">>))
    /\ [][ \A w \in Workers :
             (/\ wk[w].pc = "spawned" /\ wk'[w].pc # "spawned"
              /\ wk[w].frame.method = SetXRealIpMethod
              /\ NamedIp(wk[w].frame) = NotAString)
             => xRealIp' = xRealIp ]_vars

\* The X-Real-IP of a session changes only when the session is set up or one of
\* its own workers handles httpsocket.setxrealip.
OnlyOwnIpChanges ==
    \A s \in Sessions :
        xRealIp'[s] # xRealIp[s]
        => \/ xRealIp'[s] = RemoteIp(s)
           \/ \E w \in Workers : /\ SessOf(w) = s
                                 /\ wk[w].frame.method = SetXRealIpMethod
                                 /\ wk[w].pc = "spawned" /\ wk'[w].pc = "send"

\* The upstream calls started in this step by the sessions of S carry the
\* address answered last.
StartedCallsCarry(S) ==
    \A w \in Workers :
        (wk[w].pc = "spawned" /\ wk'[w].pc = "upstream" /\ SessOf(w) \in S)
        => wk'[w].req.xRealIp = calls[SessOf(w)].ipSet

\* The upstream call a session of S starts when it handles the request GET /x
\* now carries the address answered last.
CallNowCarries(S) ==
    \A s \in S :
        LET call == BuildRequest(params,
                        DecodeRequest([method |-> << <<"GET">>, <<"/", "x">> >>,
                                       params |-> <<>>, id |-> JsonNull]),
                        xRealIp[s])
        IN  call.ok => call.req.xRealIp = calls[s].ipSet

\* C12 as claimed: once the "ok" answer to a httpsocket.setxrealip naming the
\* address s is written, every upstream call the session starts carries
\* X-Real-IP = s until another setxrealip succeeds; the X-Real-IP of the other
\* sessions is not affected.  (The sessions concerned: the last answered
\* setxrealip named an address and no setxrealip succeeded since the answer.)
C12_CarriesAnsweredIp ==
    /\ []CallNowCarries({ s \in Sessions : /\ calls[s].ipSet \notin {NoIpSet, NotAString}
                                           /\ ~calls[s].ipChanged })
    /\ [][ /\ StartedCallsCarry({ s \in Sessions :
                                     /\ calls[s].ipSet \notin {NoIpSet, NotAString}
                                     /\ ~calls[s].ipChanged })
           /\ OnlyOwnIpChanges ]_vars

\* C12 amended: the same, provided the request answered last is also the one
\* that assigned the address last (no other setxrealip of the session was
\* handled between its assignment and the writing of its answer).
C12_CarriesAnsweredIpOfLast ==
    /\ []CallNowCarries({ s \in Sessions : /\ calls[s].ipSet \notin {NoIpSet, NotAString}
                                           /\ calls[s].ipFrom = calls[s].ipLast })
    /\ [][ /\ StartedCallsCarry({ s \in Sessions :
                                     /\ calls[s].ipSet \notin {NoIpSet, NotAString}
                                     /\ calls[s].ipFrom = calls[s].ipLast })
           /\ OnlyOwnIpChanges ]_vars

\* A call carrying 10.0.0.1 is under way after the setxrealip naming it was
\* answered and its worker ended, the other session keeping its own address.
C12_Witness ==
    \E w \in Workers :
        LET s == SessOf(w) IN
        /\ wk[w].pc = "upstream"
        /\ calls[s].ipSet = <<"10.0.0.1">>
        /\ calls[s].ipFrom = calls[s].ipLast
        /\ wk[calls[s].ipFrom].pc = "done"
        /\ wk[w].req.xRealIp = <<"10.0.0.1">>
        /\ \E r \in Sessions : r # s /\ sessPc[r] = "reading" /\ xRealIp[r] = RemoteIp(r)


\* ------------------------------------------------------- origin: properties
\* The sessions whose request was answered 403 "Forbidden"; those whose request
\* was upgraded.
Forbidden == { s \in Sessions : sessPc[s] = "forbidden" }
Upgraded == { s \in Sessions : sessPc[s] \in {"upgraded", "reading", "exiting", "closed"} }

\* C14: a WebSocket request is upgraded iff the origin whitelist is empty or
\* the Origin header ends with a non-empty whitelist entry; a rejected request
\* is answered 403 "Forbidden" and changes no counter but the connection
\* attempts, by one: no OpenedConnection, no ClosedConnection, no child counter,
\* no upgrade.  (The step that rejects a request counts one connection attempt
\* on the root and changes no other counter; a rejected request does nothing
\* more.)
C14_UpgradedIffOriginAllowed ==
    /\ [](\A s \in Sessions :
            LET allowed ==
                    \/ Len(params.WhitelistedOrigins) = 0
                    \/ \E i \in 1..Len(params.WhitelistedOrigins), n \in 0..Len(origin[s]) :
                          /\ params.WhitelistedOrigins[i] # <<>>
                          /\ SubSeq(origin[s], n + 1, Len(origin[s])) =
                                params.WhitelistedOrigins[i]
            IN  /\ s \in Upgraded => allowed
                /\ s \in Forbidden <=> (sessPc[s] # "idle" /\ ~allowed)
                /\ s \in Forbidden =>
                      /\ statCounter[s] = NIL
                      /\ ~connOpen[s]
                      /\ calls[s].opened = 0 /\ calls[s].closed = 0)
    /\ [][ \A s \in Sessions :
             /\ (sessPc[s] = "idle" /\ sessPc'[s] = "forbidden")
                => /\ global' = [global EXCEPT !.connectionAttemptsPerSec = @ + 1]
                   /\ statCounter' = statCounter
                   /\ ticked' = ticked
             /\ sessPc[s] = "forbidden" => sessPc'[s] = "forbidden" ]_vars

\* Under the whitelist ["", ".ok"] one request with an Origin ending in ".ok" has
\* been upgraded and one without Origin header has been rejected.
C14_Witness ==
    /\ Len(params.WhitelistedOrigins) = 2
    /\ \E s \in Upgraded : origin[s] = <<"site", ".ok">>
    /\ \E s \in Forbidden : origin[s] = <<>>


\* ------------------------------------------------ HTTP endpoint: properties
\* C15: the single-shot HTTP endpoint builds its client with a StatCounter
\* chained to the root, dispatches once through HandleRpcRequest and returns
\* normally: no panic leaves the dispatch for the panic-catching middleware, and
\* the body of the HTTP response is one JSON-RPC response and nothing else.
C15_HttpEndpointReturnsNormally ==
    /\ \A s \in Sessions :
          sessPc[s] = "inline"
          => /\ statCounter[s] # NIL
             /\ \A w \in Workers : wk[w].sess = s => wk[w].pc # "panicked"
    /\ \A s \in Sessions :
          /\ \A i \in 1..Len(wire[s]) : wire[s][i].kind = "json"
          /\ (\E i \in 1..Len(wire[s]) : wire[s][i].by = 0) => Len(wire[s]) = 1


\* --------------------------------------------------- shaping: properties
\* C16: for a successful upstream call with a non-null request id (the socket
\* of the session still open) the response carries id, http_status,
\* http_content_type and upstream_response_time_seconds, and: for a JSON-family
\* content type and a body that is an object with result or error, both members
\* copied; for a JSON-family content type and any other body, decodable or not,
\* the body as result and no error; for any other content type the body as a
\* JSON string in result and no error.
C16_ShapedFromUpstream ==
    \A w \in Handled :
        (wk[w].via = "answered" /\ ~HasNoId(w) /\ connOpen[SessOf(w)])
        => /\ Written(w) # {}
           /\ \A x \in Written(w) :
                 /\ x.id = EncodeId(DecodeId(wk[w].frame.id))
                 /\ x.http_status = wk[w].httpResp.StatusCode /\ x.http_status # 0
                 /\ x.http_content_type = wk[w].httpResp.ContentType
                 /\ x.http_content_type # <<>>
                 /\ x.upstream_response_time_seconds # 0
                 /\ IF ~IsJsonContentType(wk[w].httpResp.ContentType)
                    THEN /\ x.hasResult /\ ~x.hasError
                         /\ x.result = <<"\"">> \o wk[w].httpResp.Body \o <<"\"">>
                    ELSE IF BodyHas(w, "result") \/ BodyHas(w, "error")
                    THEN /\ x.result = FieldOf(wk[w].httpResp.Body, "result")
                         /\ x.error = FieldOf(wk[w].httpResp.Body, "error")
                    ELSE /\ x.hasResult /\ ~x.hasError
                         /\ x.result = wk[w].httpResp.Body


\* ------------------------------------------------- throttling: properties
\* C17: ThrottleIfNeeded throttles the caller iff rpsLimit > 0 and the
\* requests per second have reached it, or concurrentLimit > 0 and the active
\* requests have reached it; throttling adds exactly 1 to the throttled counter
\* of the counter and of each ancestor and sleeps once, to the next second, also
\* when both limits are reached; otherwise the call returns at once and changes
\* no counter.  In the formula: a call that has returned either did nothing or
\* counted on the counter, counted on the parent and slept, once each and in
\* this order; the call itself changes no counter and enters throttle iff a
\* limit > 0 is reached; each step of throttle does its one thing.
C17_ThrottlesIffLimitReached ==
    /\ [](\A c \in Callers :
            (callers[c].op = "throttle" /\ callers[c].pc = "returned")
            => \/ callers[c].did = <<>>
               \/ callers[c].did = <<"own", "parent", "sleep">>)
    /\ [][ \A c \in Callers :
             /\ (callers[c].pc = "idle" /\ callers'[c].op = "throttle")
                => LET sc   == statCounter[callers'[c].sess]
                       rps  == callers'[c].rpsLimit
                       conc == callers'[c].activeRequestsLimit
                       must == \/ rps > 0 /\ sc.requestsPerSec >= rps
                               \/ conc > 0 /\ sc.activeRequests >= conc
                   IN  /\ statCounter' = statCounter
                       /\ global' = global
                       /\ callers'[c].pc = IF must THEN "throttle" ELSE "returned"
             /\ (callers[c].op = "throttle" /\ callers'[c].did # callers[c].did)
                => LET s == callers[c].sess
                       e == callers'[c].did[Len(callers'[c].did)]
                   IN  /\ Len(callers'[c].did) = Len(callers[c].did) + 1
                       /\ e = "own" =>
                             /\ statCounter' =
                                  [statCounter EXCEPT ![s].throttledConnectionsPerSec = @ + 1]
                             /\ global' = global
                       /\ e = "parent" =>
                             /\ global' = [global EXCEPT !.throttledConnectionsPerSec = @ + 1]
                             /\ statCounter' = statCounter
                       /\ e = "sleep" =>
                             /\ statCounter' = statCounter /\ global' = global
                             /\ now > callers[c].t ]_vars

\* One call with both limits reached has counted twice, slept once and
\* returned; one call with both limits <= 0 has returned without doing anything.
C17_Witness ==
    \E c, d \in Callers :
        /\ callers[c].pc = "returned" /\ callers[c].op = "throttle"
        /\ callers[c].rpsLimit = 1 /\ callers[c].activeRequestsLimit = 1
        /\ callers[c].did = <<"own", "parent", "sleep">>
        /\ callers[d].pc = "returned" /\ callers[d].op = "throttle"
        /\ callers[d].rpsLimit = 0 /\ callers[d].activeRequestsLimit < 0
        /\ callers[d].did = <<>>

\* ---------------------------------------------------- ticking: properties
\* C18: TickIfNeeded(t) invokes Tick iff the second of t is later than the
\* second the counter has stored; the stored second never moves backward; and
\* with several callers, for whatever t, the per-second counters are reset at
\* most once per second (no two Ticks were invoked for the same second).
C18_TickIfNeededMonotone ==
    /\ [](\A i, j \in 1..Len(tally.ticks) : i # j => tally.ticks[i] # tally.ticks[j])
    /\ [][ /\ \A c \in Callers :
                (callers[c].pc = "woke" /\ callers'[c].pc # "woke")
                => (callers'[c].pc = "tick"
                    <=> callers[c].newNow > statCounter[callers[c].sess].unixtime)
           /\ \A s \in Sessions :
                (statCounter[s] # NIL /\ statCounter'[s] # NIL)
                => statCounter'[s].unixtime >= statCounter[s].unixtime ]_vars

\* C19: under every interleaving of increments with Tick, for each per-second
\* counter the increments made equal the sum of the values in the snapshots (the
\* ones returned and the ones being taken) plus the current value: every
\* increment is in exactly one snapshot or still in the counter; a step of Tick
\* leaves the two gauges and the parent counter unchanged.
C19_IncrementsConserved ==
    /\ [](\A s \in OneSession :
            statCounter[s] # NIL
            => \A k \in PerSecKinds :
                  tally.incs[k] =
                      tally.snaps[k]
                      + SumOver([c \in Callers |-> callers[c].scCopy[k]], Callers)
                      + statCounter[s][k])
    /\ [][ \A c \in Callers :
             (callers[c].pc \in {"tick", "load"} /\ callers'[c] # callers[c])
             => LET s == callers[c].sess IN
                /\ global' = global
                /\ statCounter'[s].activeConnections = statCounter[s].activeConnections
                /\ statCounter'[s].activeRequests = statCounter[s].activeRequests
                /\ statCounter'[s].parentCounter = statCounter[s].parentCounter ]_vars

\* A Tick has swapped out one started request and, before it returned, another
\* request was started.
C19_Witness ==
    \E c \in Callers, s \in OneSession :
        /\ callers[c].pc = "load"
        /\ callers[c].scCopy.requestsPerSec = 1
        /\ statCounter[s].requestsPerSec = 1
        /\ tally.incs.requestsPerSec = 2


\* ------------------------------------------------- request headers: properties
\* C25: for every upstream request built by a worker, the X-Real-IP header
\* equals the address embedded in the X-Request-ID header of that same request,
\* also when a httpsocket.setxrealip is handled concurrently on the session.
C25_RequestIdCarriesRealIp ==
    \A w \in Workers :
        (wk[w].pc = "upstream" /\ wk[w].req.xRequestId # NoUpstreamRequest.xRequestId)
        => wk[w].req.xRequestId.ip = wk[w].req.xRealIp


\* ---------------------------------------------------- exit paths: properties
\* C21: HandleRpcRequest executes RequestFinished on its counter exactly once
\* on every exit path, and a panic raised while handling a request is caught
\* inside that worker: it ends neither the read loop of the session nor another
\* worker.  In the formula: no worker ends by a panic that leaves
\* HandleRpcRequest; the finished requests recorded on a session's counter are
\* the workers of the session past the call; a worker ends only from the call
\* on the parent counter; and the step of a panic changes only that worker.
C21_FinishedOnceOnEveryPath ==
    /\ [](\A w \in Workers : wk[w].pc # "panicked")
    /\ [](\A s \in Children :
            statCounter[s].responsesPerSec =
                Cardinality({ w \in Workers : /\ wk[w].sess = s
                                              /\ wk[w].pc \in {"finish2", "done"} }))
    /\ [][ \A w \in Workers :
             /\ (wk[w].pc # "done" /\ wk'[w].pc = "done") => wk[w].pc = "finish2"
             /\ (wk[w].pc \in {"spawned", "upstream", "send", "locked"}
                 /\ wk'[w].pc \notin {"spawned", "upstream", "send", "locked"})
                => wk'[w].pc = "finish"
             /\ (wk[w].via # "panic" /\ wk'[w].via = "panic")
                => /\ sessPc' = sessPc /\ connOpen' = connOpen
                   /\ \A v \in Workers \ {w} : wk'[v] = wk[v] ]_vars


\* ------------------------------------------------- write failures: properties
\* C22: the write-failed flag of the client is sticky: once a write fails it
\* stays true for the rest of the session; a failed write neither stops the
\* read loop nor keeps later workers from attempting their own writes; the
\* workers in flight at the teardown of the session finish their upstream call,
\* attempt the write, which fails and delivers nothing, and terminate.  In the
\* formula: the flag never goes back to false; the step that sets it leaves the
\* session handler where it is; a worker at Send goes on to lock and to write
\* whatever the flag says, each write counted; a write on a closed socket puts
\* nothing on the sink and sets the flag; and a worker of a torn-down session
\* that has not ended can take a step, or waits for the mutex held by a task
\* that is about to release it.
C22_WriteFailureIsSticky ==
    /\ [][ /\ \A s \in Sessions :
                /\ gotWriteError[s] => gotWriteError'[s]
                /\ gotWriteError'[s] # gotWriteError[s] => sessPc'[s] = sessPc[s]
           /\ \A w \in Workers :
                /\ (wk[w].pc = "send" /\ wk'[w] # wk[w]) => wk'[w].pc = "locked"
                /\ (wk[w].pc = "locked" /\ wk'[w] # wk[w])
                   => /\ wk'[w].pc = "finish"
                      /\ wk'[w].sends = wk[w].sends + 1
                      /\ ~connOpen[SessOf(w)]
                         => /\ wire' = wire
                            /\ gotWriteError'[SessOf(w)] ]_vars
    /\ [](\A w \in Workers :
            (/\ wk[w].pc \in {"spawned", "upstream", "send", "locked", "finish", "finish2"}
             /\ sessPc[SessOf(w)] = "closed")
            => \/ ENABLED (\/ Dispatch(w) \/ AddRequestId(w)
                           \/ \E r \in CoreHttpResponses : UpstreamDone(w, FALSE, r)
                           \/ SendLock(w)
                           \/ \E ok \in BOOLEAN : SendWrite(w, ok)
                           \/ FinishChild(w) \/ FinishParent(w))
               \/ /\ wk[w].pc = "send"
                  /\ \/ writeLock[SessOf(w)] = PingTask /\ pingPc[SessOf(w)] = "locked"
                     \/ \E v \in Workers : writeLock[SessOf(w)] = v /\ wk[v].pc = "locked")

\* The session is still reading after the write of one worker failed, and
\* another worker holds the lock for its own write.
C22_Witness ==
    \E v, w \in Workers :
        /\ wk[w].pc = "locked"
        /\ v # w /\ SessOf(v) = SessOf(w)
        /\ wk[v].sends = 1 /\ FramesBy(SessOf(v), v) = {}
        /\ gotWriteError[SessOf(w)]
        /\ sessPc[SessOf(w)] = "reading"


\* -------------------------------------------------- ping goroutine: properties
\* C24: after the read loop of a session has exited and the session is torn
\* down (socket closed, ping ticker stopped) the ping task of the session
\* eventually terminates: no ping task stays blocked forever.  In the formula:
\* the ping goroutine of a torn-down session has ended or can take a step (what
\* is not enabled once the ticker is stopped is never enabled again).
C24_PingTaskEnds ==
    \A s \in Sessions :
        sessPc[s] = "closed"
        => \/ pingPc[s] = "exited"
           \/ ENABLED (PingLock(s) \/ \E ok \in BOOLEAN : PingWrite(s, ok))


\* --------------------------------------------------- read deadline: properties
\* C23: the read deadline of a session is always 60 s after the latest of the
\* upgrade, the last request parsed and the last pong received; if none of
\* these occurs for 60 s the read loop exits and the session is torn down
\* (socket closed, ClosedConnection run); and while requests or pongs keep
\* arriving within 60 s of each other the deadline does not end the session.
\* In the formula: the deadline is the latest event plus ReadDeadline; a read
\* loop that ended on the deadline had no event for ReadDeadline; 60 s after the
\* latest event the read loop can exit on the deadline and can read neither a
\* request nor a pong, and its steps change neither the deadline nor the latest
\* event; the step after the exit closes the socket and runs ClosedConnection.
C23_DeadlineAfterLatestEvent ==
    /\ [](\A s \in Sessions :
            /\ sessPc[s] \in {"reading", "exiting", "closed"}
               => readDeadline[s] = calls[s].lastEvent + ReadDeadline
            /\ calls[s].timedOut => now >= calls[s].lastEvent + ReadDeadline
            /\ (sessPc[s] = "reading" /\ now >= calls[s].lastEvent + ReadDeadline)
               => /\ ENABLED WsReadTimeout(s)
                  /\ ~ENABLED (WsPong(s) \/ \E f \in CoreFrames : WsRead(s, f)))
    /\ [][ \A s \in Sessions :
             /\ (sessPc[s] = "reading" /\ now >= readDeadline[s])
                => /\ sessPc'[s] \in {"reading", "exiting"}
                   /\ readDeadline'[s] = readDeadline[s]
                   /\ calls'[s].lastEvent = calls[s].lastEvent
             /\ (sessPc[s] = "exiting" /\ sessPc'[s] # "exiting")
                => /\ sessPc'[s] = "closed"
                   /\ ~connOpen'[s]
                   /\ calls'[s].closed = calls[s].closed + 1
                   /\ global'.activeConnections = global.activeConnections - 1 ]_vars

\* A session that read a request or a pong after its upgrade was torn down on
\* the read deadline, 60 s after that event.
C23_Witness ==
    \E s \in Sessions :
        /\ sessPc[s] = "closed"
        /\ calls[s].timedOut
        /\ calls[s].lastEvent > 0
        /\ now = calls[s].lastEvent + ReadDeadline

====
